---- MODULE Spec2Model ----
(***************************************************************************)
(* State-machine model of the interactive worktree session                 *)
(* (class WorktreeSelector, src/src/ui.ts) together with the collaborators *)
(* it drives: the version-control accessor, the per-repository config      *)
(* file, the post-create hook runner and the external tool launcher.       *)
(*                                                                         *)
(* The session object is one record, ui, whose fields are the fields of    *)
(* WorktreeSelector.  Every private method that only touches the session   *)
(* is an operator from session record to session record, so that the       *)
(* sequential composition of the source (hideHookOutput(); loadWorktrees()) *)
(* is operator composition here.  One action of Next is one event-loop     *)
(* callback: a key event, a widget event, a hook callback, a timer.        *)
(***************************************************************************)
EXTENDS Integers, Sequences, FiniteSets, TLC

(***************************************************************************)
(* Bounds of the model.                                                    *)
(***************************************************************************)
\* number of hook processes one session may start
MaxHooks == 1
\* number of output chunks the hook output buffer is followed for
MaxOutput == 2

\* `const maxLines = 11` of updateHookOutput
maxLines == 11

(***************************************************************************)
(* Values.                                                                 *)
(***************************************************************************)
\* null / undefined of the source
Null == "null"
\* the repository root, which is also the path of the main worktree
RepoRootPath == "/r"
\* what the user can submit in the create dialog: a name, or only blanks
BranchInputs == {" a ", "  "}
\* hook commands, open commands and launch commands a user can configure
HookValues == {"", "npm i"}
OpenValues == {""}
LaunchValues == {"", "cursor"}
\* what a hook process can report on completion: exit 0, exit 1, or a
\* spawn error, which has no exit code
HookResults ==
  { [success |-> TRUE, exitCode |-> "0"],
    [success |-> FALSE, exitCode |-> "1"],
    [success |-> FALSE, exitCode |-> Null] }
\* output chunks a hook process can write, as sequences of characters: a
\* line, an unterminated piece, and six lines at once
Chunks ==
  { <<"x", "\n">>,
    <<"y">>,
    <<"1", "\n", "2", "\n", "3", "\n", "4", "\n", "5", "\n", "6", "\n">> }
\* the code of the launched tool's exit event: a number, or Null when the
\* tool was terminated by a signal
ToolExitCodes == {"0", "3", Null}
\* raw error text of a failing version-control command
GitError == "fatal: git failed"
\* every path the listing can report, in the order the tool reports them
AllPaths == <<"/r", "/w/a", "/w/d">>

\* String.prototype.trim on the inputs above
\* variant: the value is used as typed
Trim_AsTyped(v) == v

Trim(v) ==
  CASE v = " a " -> "a"
    [] v = "  " -> ""
    [] OTHER -> v

\* `${n} worktree${n === 1 ? "" : "s"}`
Plural(n) == ToString(n) \o " worktree" \o (IF n = 1 THEN "" ELSE "s")

VARIABLES
  ui,            \* the WorktreeSelector object
  gitWorktrees,  \* the repository's worktrees: set of [path, branch, dirty]
  repoExists,    \* whether targetPath lies inside a repository
  configFile,    \* .opencode-worktree.json in the repo root, or Null
  availCmds,     \* commands for which `cmd --version` exits 0
  hooks,         \* hook processes: id -> "idle" | "running" | "killed" | "done"
  timers,        \* pending onHookSuccess display-delay timers
  proc,          \* "ui" | "launched" | "exited"
  launches,      \* the launchCommand calls made so far: <<[cwd, command]>>
  exitCode,      \* exit code of the session process, or Null
  last,          \* the last callback that ran: its name, the
                 \* version-control and config calls it issued, and the
                 \* counters of the batch loop when it ran one
  document,      \* ~/.config/opencode-worktree/config.json, the persisted
                 \* document of the global-config resolver
  resolved       \* the last call of the global-config resolver: its
                 \* arguments, its result and the document before it

vars == <<ui, gitWorktrees, repoExists, configFile, availCmds, hooks, timers,
          proc, launches, exitCode, last, document, resolved>>

(***************************************************************************)
(* Worktree Repository Accessor (git.js).                                  *)
(***************************************************************************)
Min(a, b) == IF a < b THEN a ELSE b
Max(a, b) == IF a > b THEN a ELSE b

\* the record the listing gives for the main worktree
MainWorktree == [path |-> RepoRootPath, branch |-> "main", dirty |-> FALSE]

\* getDefaultWorktreesDir + branch name: where createWorktree puts a worktree
PathOf(branch) == "/w/" \o branch

\* WorktreeInfo as the session keeps it in list options
WorktreeInfo(r) == [path |-> r.path, branch |-> r.branch]

\* no WorktreeInfo (confirmingWorktree = null)
NoWorktree == [path |-> Null, branch |-> Null]

\* resolveRepoRoot(targetPath)
resolveRepoRoot == IF repoExists THEN RepoRootPath ELSE Null

\* listWorktrees(repoRoot): the records in tool-reported order, main first
listWorktrees(wts) ==
  LET present == SelectSeq(AllPaths, LAMBDA p : \E r \in wts : r.path = p)
  IN  [i \in 1..Len(present) |->
         WorktreeInfo(CHOOSE r \in wts : r.path = present[i])]

\* isMainWorktree(repoRoot, path): path equality
isMainWorktree(repoRoot, path) == path = repoRoot

\* hasUncommittedChanges(path): the dirty state at the moment of the call
hasUncommittedChanges(wts, path) ==
  \E r \in wts : r.path = path /\ r.dirty

\* the worktree set after a successful unlink of path
Unlinked(wts, path) == {r \in wts : r.path # path}

\* the worktree set after a successful createWorktree of branch
Created(wts, branch) ==
  wts \cup {[path |-> PathOf(branch), branch |-> branch, dirty |-> FALSE]}

\* createWorktree can succeed only when the target path is free
CanCreate(wts, branch) == \A r \in wts : r.path # PathOf(branch)

(***************************************************************************)
(* Per-repository config file (src/src/config.ts).                         *)
(***************************************************************************)
\* Config {} : every field undefined
EmptyConfig ==
  [postCreateHook |-> Null, openCommand |-> Null, launchCommand |-> Null]

\* no config file in the repo root
NoFile == [exists |-> FALSE, valid |-> FALSE, content |-> EmptyConfig]

\* a file holding JSON.stringify(config)
FileOf(config) == [exists |-> TRUE, valid |-> TRUE, content |-> config]

\* configExists(repoRoot)
configExists(file) == file.exists

\* loadRepoConfig(repoRoot): only postCreateHook and openCommand are read
loadRepoConfig(file) ==
  IF ~file.exists \/ ~file.valid
    THEN EmptyConfig
    ELSE [postCreateHook |-> file.content.postCreateHook,
          openCommand |-> file.content.openCommand,
          launchCommand |-> Null]

\* isCommandAvailable(command)
isCommandAvailable(command) == command \in availCmds

\* `x || "opencode"`
OrOpencode(x) == IF x = Null \/ x = "" THEN "opencode" ELSE x

\* truthiness of a string | null
Truthy(x) == x # Null /\ x # ""

(***************************************************************************)
(* Global config document with per-repository overrides (the config        *)
(* module of src/unnamed/part_004).  A field of a record is a string, Null *)
(* when the field is absent or undefined, or NotAString when the document  *)
(* holds a value of another type there.                                    *)
(***************************************************************************)
\* a document value that is not a string (a number, an array, ...)
NotAString == "<number>"
\* the repo keys getRepoKey can resolve (git.js): the repository's own key
\* and the key of another repository
RepoKey == "github.com/x/y"
OtherKey == "github.com/a/b"

IsString(v) == v # Null /\ v # NotAString

\* getDefaultConfig()
getDefaultConfig ==
  [postCreateHook |-> "", openCommand |-> "", launchCommand |-> "opencode"]

\* a partial override with no field
NoFields ==
  [postCreateHook |-> Null, openCommand |-> Null, launchCommand |-> Null]

\* createEmptyGlobalConfig()
createEmptyGlobalConfig == [default |-> getDefaultConfig, repos |-> <<>>]

\* a document that is a JSON object: its `default` and `repos` members are
\* objects or not, and each entry of repos is an object or not
ObjectDocument(defaultIsObject, default, reposIsObject, repos) ==
  [kind |-> "object", defaultIsObject |-> defaultIsObject,
   default |-> default, reposIsObject |-> reposIsObject, repos |-> repos]

\* a document that is missing, unreadable, not JSON, or JSON but no object
OtherDocument(kind) ==
  [kind |-> kind, defaultIsObject |-> FALSE, default |-> NoFields,
   reposIsObject |-> FALSE, repos |-> <<>>]

\* an entry of repos that is an object with the given members
Entry(hook, open, launch) ==
  [isObject |-> TRUE, postCreateHook |-> hook, openCommand |-> open,
   launchCommand |-> launch]

\* an entry of repos that is not an object
NotAnEntry ==
  [isObject |-> FALSE, postCreateHook |-> Null, openCommand |-> Null,
   launchCommand |-> Null]

\* no call of the global-config resolver yet
NoCall ==
  [op |-> "none", repoKey |-> Null, config |-> NoFields, success |-> FALSE,
   result |-> NoFields, before |-> OtherDocument("missing")]

\* `typeof v.field === "string"` copies, everything else is left out
StringFields(v) ==
  [postCreateHook |-> IF IsString(v.postCreateHook)
                        THEN v.postCreateHook ELSE Null,
   openCommand |-> IF IsString(v.openCommand) THEN v.openCommand ELSE Null,
   launchCommand |-> IF IsString(v.launchCommand)
                       THEN v.launchCommand ELSE Null]

\* loadGlobalConfig()
loadGlobalConfig(doc) ==
  IF doc.kind # "object"
    THEN createEmptyGlobalConfig
    ELSE
      LET parsedDefault == IF doc.defaultIsObject
                             THEN StringFields(doc.default) ELSE NoFields
          default ==
            [f \in DOMAIN getDefaultConfig |->
               IF parsedDefault[f] # Null THEN parsedDefault[f]
               ELSE getDefaultConfig[f]]
          kept == IF doc.reposIsObject
                    THEN {k \in DOMAIN doc.repos :
                            /\ doc.repos[k].isObject
                            /\ StringFields(doc.repos[k]) # NoFields}
                    ELSE {}
      IN  [default |-> default,
           repos |-> [k \in kept |-> StringFields(doc.repos[k])]]

\* JSON.stringify(config): members whose value is undefined are left out
Stringify(globalConfig) ==
  ObjectDocument(TRUE, globalConfig.default, TRUE,
                 [k \in DOMAIN globalConfig.repos |->
                    Entry(globalConfig.repos[k].postCreateHook,
                          globalConfig.repos[k].openCommand,
                          globalConfig.repos[k].launchCommand)])

\* saveGlobalConfig(config): the document after the call and the result;
\* writeOk is whether the directory can be made and the file written
saveGlobalConfig(doc, globalConfig, writeOk) ==
  IF writeOk
    THEN [document |-> Stringify(globalConfig), success |-> TRUE]
    ELSE [document |-> doc, success |-> FALSE]

\* a load in which an override replaces the default as a whole: fields the
\* override lacks come from the built-in default
loadRepoConfigGlobal_WholeEntry(doc, repoKey) ==
  LET globalConfig == loadGlobalConfig(doc)
      config ==
        IF repoKey # Null /\ repoKey \in DOMAIN globalConfig.repos
          THEN [f \in DOMAIN getDefaultConfig |->
                  IF globalConfig.repos[repoKey][f] # Null
                    THEN globalConfig.repos[repoKey][f]
                    ELSE getDefaultConfig[f]]
          ELSE globalConfig.default
  IN  [config |-> config, repoKey |-> repoKey]

\* loadRepoConfig(repoRoot) of the global-config module; repoKey is what
\* getRepoKey(repoRoot) returns
loadRepoConfigGlobal(doc, repoKey) ==
  LET globalConfig == loadGlobalConfig(doc)
      config ==
        IF repoKey # Null /\ repoKey \in DOMAIN globalConfig.repos
          THEN [f \in DOMAIN getDefaultConfig |->
                  IF globalConfig.repos[repoKey][f] # Null
                    THEN globalConfig.repos[repoKey][f]
                    ELSE globalConfig.default[f]]
          ELSE globalConfig.default
  IN  [config |-> config, repoKey |-> repoKey]

\* saveRepoConfig(repoRoot, config) of the global-config module
saveRepoConfigGlobal(doc, repoKey, config, writeOk) ==
  IF repoKey = Null
    THEN [document |-> doc, success |-> FALSE]
    ELSE
      LET globalConfig == loadGlobalConfig(doc)
          \* the keys set on repoConfig, whatever their value
          keys == {f \in DOMAIN getDefaultConfig :
                     config[f] # globalConfig.default[f]}
          repoConfig == [f \in DOMAIN getDefaultConfig |->
                           IF f \in keys THEN config[f] ELSE Null]
          others == DOMAIN globalConfig.repos \ {repoKey}
          repos ==
            IF keys # {}
              THEN [k \in others \cup {repoKey} |->
                      IF k = repoKey THEN repoConfig
                      ELSE globalConfig.repos[k]]
              ELSE [k \in others |-> globalConfig.repos[k]]
      IN  saveGlobalConfig(doc, [default |-> globalConfig.default,
                                 repos |-> repos], writeOk)


(***************************************************************************)
(* WorktreeSelector: methods that only touch the session object.           *)
(* s is the session record before the call, the result the record after.   *)
(* Widgets are modelled by their existence and focus: a select or input    *)
(* the session created and still references, and on which focus() was      *)
(* called last, receives the key events.  Zero-delay focus timers          *)
(* (setTimeout(..., 0)) run before the next input event is read and are    *)
(* part of the callback that set them.                                     *)
(***************************************************************************)
\* the value of the synthetic "create new" list entry
CREATE_NEW_WORKTREE_VALUE == [path |-> Null, branch |-> "+ Create new worktree"]

CONFIRM_UNLINK_VALUE == "unlink"
CONFIRM_DELETE_VALUE == "delete"
CONFIRM_CANCEL_VALUE == "cancel"
ConfirmActions ==
  {CONFIRM_UNLINK_VALUE, CONFIRM_DELETE_VALUE, CONFIRM_CANCEL_VALUE}

setStatus(s, message) == [s EXCEPT !.status = message]

\* SelectRenderable `options` setter: the selected index is kept, clamped
SetOptions(s, options) ==
  [s EXCEPT !.options = options,
            !.selectedIndex = Min(s.selectedIndex, Max(0, Len(options) - 1))]

\* SelectRenderable.setSelectedIndex
setSelectedIndex(s, index) ==
  IF index >= 0 /\ index < Len(s.options)
    THEN [s EXCEPT !.selectedIndex = index]
    ELSE s

\* position (0-based) of the first option with the given path, or -1
FindIndex(options, path) ==
  IF \E i \in 1..Len(options) : options[i].path = path
    THEN (CHOOSE i \in 1..Len(options) :
            /\ options[i].path = path
            /\ \A j \in 1..(i - 1) : options[j].path # path) - 1
    ELSE -1

buildOptions(s, worktrees) ==
  IF s.isSelectingForDelete
    THEN worktrees
    ELSE <<CREATE_NEW_WORKTREE_VALUE>> \o worktrees

getInitialStatusMessage(s) ==
  IF s.repoRoot = Null THEN "No git repository found in this directory."
  ELSE IF ~s.opencodeAvailable THEN "opencode is not available on PATH."
  ELSE IF Len(s.options) - 1 = 0
    THEN "No worktrees detected. Select 'Create new worktree' to add one."
  ELSE "Found " \o Plural(Len(s.options) - 1) \o "."

loadWorktrees(s, selectWorktreePath, wts) ==
  LET s1 == [s EXCEPT !.repoRoot = resolveRepoRoot] IN
  IF s1.repoRoot = Null
    THEN SetOptions(setStatus(s1, "No git repository found in this directory."),
                    <<>>)
    ELSE
      LET worktrees == listWorktrees(wts)
          s2 == SetOptions(s1, buildOptions(s1, worktrees))
          s3 == IF Truthy(selectWorktreePath)
                  THEN setSelectedIndex(s2,
                         FindIndex(s2.options, selectWorktreePath))
                  ELSE s2
          s4 == setStatus(s3,
                  IF Len(worktrees) = 0
                    THEN "No worktrees detected. Select 'Create new worktree' to add one."
                    ELSE "Found " \o Plural(Len(worktrees)) \o ".")
          cmdName == OrOpencode(s4.repoConfig.launchCommand)
          s5 == [s4 EXCEPT !.opencodeAvailable = isCommandAvailable(cmdName)]
      IN  IF ~s5.opencodeAvailable
            THEN setStatus(s5, cmdName \o " is not available on PATH.")
            ELSE s5

getSelectedWorktree(s) ==
  IF s.selectedIndex + 1 \in 1..Len(s.options)
     /\ s.options[s.selectedIndex + 1] # CREATE_NEW_WORKTREE_VALUE
    THEN s.options[s.selectedIndex + 1]
    ELSE NoWorktree

showCreateWorktreeInput(s) ==
  setStatus([s EXCEPT !.isCreatingWorktree = TRUE,
                      !.selectVisible = FALSE,
                      !.selectFocused = FALSE,
                      !.branchInput = TRUE],
            "Enter a branch name for the new worktree.")

hideCreateWorktreeInput(s, selectWorktreePath, wts) ==
  loadWorktrees([s EXCEPT !.isCreatingWorktree = FALSE,
                          !.branchInput = FALSE,
                          !.selectVisible = TRUE,
                          !.selectFocused = TRUE],
                selectWorktreePath, wts)

RECURSIVE JoinAll(_, _)
\* parts.join(sep) on character sequences
JoinAll(parts, sep) ==
  IF Len(parts) = 0 THEN <<>>
  ELSE IF Len(parts) = 1 THEN parts[1]
  ELSE parts[1] \o sep \o JoinAll(Tail(parts), sep)

RECURSIVE Split(_, _)
\* text.split("\n"): the trailing line is built in `line`
Split(text, line) ==
  IF Len(text) = 0 THEN <<line>>
  ELSE IF Head(text) = "\n" THEN <<line>> \o Split(Tail(text), <<>>)
  ELSE Split(Tail(text), Append(line, Head(text)))

\* a window taken from the front of the lines
SliceLast_FromFront(lines, n) ==
  IF Len(lines) <= n THEN lines ELSE SubSeq(lines, 1, n)

\* lines.slice(-n)
SliceLast(lines, n) ==
  IF Len(lines) <= n THEN lines
  ELSE SubSeq(lines, Len(lines) - n + 1, Len(lines))

\* updateHookOutput: hookOutputText exists exactly while the container does
updateHookOutput(s) ==
  IF ~s.hookOutputContainer THEN s
  ELSE [s EXCEPT !.hookOutputText =
          JoinAll(SliceLast(Split(JoinAll(s.hookOutput, <<>>), <<>>),
                            maxLines),
                  <<"\n">>)]

\* runHook up to the spawn; id is the hook process runPostCreateHook starts
runHook(s, id) ==
  setStatus([s EXCEPT !.isRunningHook = TRUE,
                      !.hookFailed = FALSE,
                      !.hookOutput = <<>>,
                      !.branchInput = FALSE,
                      !.isCreatingWorktree = FALSE,
                      !.selectVisible = FALSE,
                      !.hookOutputContainer = TRUE,
                      !.hookOutputText = <<"Starting...", "\n">>,
                      !.hookAbortFn = id],
            "Executing post-create hook...")

hideHookOutput(s) ==
  [s EXCEPT !.isRunningHook = FALSE,
            !.hookFailed = FALSE,
            !.hookOutput = <<>>,
            !.pendingWorktreePath = Null,
            !.hookFailureSelect = FALSE,
            !.hookOutputContainer = FALSE,
            !.hookOutputText = <<>>]

\* the synchronous part of onHookSuccess; the timer is set by the action
onHookSuccess(s) == setStatus(s, "Hook completed successfully!")

\* onHookFailure that reports the failure without entering hook-failure mode
onHookFailure_StatusOnly(s, code) ==
  setStatus(s, "Hook failed"
               \o (IF code # Null THEN " (exit code: " \o code \o ")" ELSE ""))

onHookFailure(s, code) ==
  LET exitMsg == IF code # Null THEN " (exit code: " \o code \o ")" ELSE ""
      s1 == setStatus([s EXCEPT !.hookFailed = TRUE], "Hook failed" \o exitMsg)
  IN  IF s1.hookOutputContainer
        THEN [s1 EXCEPT !.hookFailureSelect = TRUE]
        ELSE s1

\* the return to the list shared by hook abort and hook failure "cancel"
ReturnToList(s, wts) ==
  LET s1 == hideHookOutput(s)
      s2 == loadWorktrees(s1, s1.pendingWorktreePath, wts)
  IN  [s2 EXCEPT !.selectVisible = TRUE, !.selectFocused = TRUE]

\* a config editor that opens without a repository
showConfigEditor_WithoutRepo(s) ==
  setStatus([s EXCEPT !.isEditingConfig = TRUE,
                      !.configActiveField = "hook",
                      !.selectVisible = FALSE,
                      !.selectFocused = FALSE,
                      !.configContainer = TRUE],
            IF s.isFirstTimeSetup
              THEN "Welcome! Configure your project settings."
              ELSE "Edit project configuration.")

showConfigEditor(s) ==
  IF s.repoRoot = Null
    THEN setStatus(s, "No git repository found.")
    ELSE setStatus([s EXCEPT !.isEditingConfig = TRUE,
                             !.configActiveField = "hook",
                             !.selectVisible = FALSE,
                             !.selectFocused = FALSE,
                             !.configContainer = TRUE],
                   IF s.isFirstTimeSetup
                     THEN "Welcome! Configure your project settings."
                     ELSE "Edit project configuration.")

showFirstTimeSetup(s) == showConfigEditor([s EXCEPT !.isFirstTimeSetup = TRUE])

hideConfigEditor(s) ==
  [s EXCEPT !.isEditingConfig = FALSE,
            !.isFirstTimeSetup = FALSE,
            !.configContainer = FALSE,
            !.selectVisible = TRUE,
            !.selectFocused = TRUE]

\* the Config object handleConfigSave builds from the three trimmed inputs
ConfigOf(hookValue, openValue, launchValue) ==
  [postCreateHook |-> IF hookValue # "" THEN hookValue ELSE Null,
   openCommand |-> IF openValue # "" THEN openValue ELSE Null,
   launchCommand |-> IF launchValue # "" THEN launchValue ELSE Null]

\* a dialog close that shows the list as it was when the dialog opened
hideConfirmDialog_KeepsList(s, wts) ==
  [s EXCEPT !.isConfirming = FALSE,
            !.confirmingWorktree = NoWorktree,
            !.confirmSelect = FALSE,
            !.confirmIsDirty = FALSE,
            !.worktreesToDelete = <<>>,
            !.selectVisible = TRUE,
            !.selectFocused = TRUE]

hideConfirmDialog(s, wts) ==
  loadWorktrees([s EXCEPT !.isConfirming = FALSE,
                          !.confirmingWorktree = NoWorktree,
                          !.confirmSelect = FALSE,
                          !.confirmIsDirty = FALSE,
                          !.worktreesToDelete = <<>>,
                          !.selectVisible = TRUE,
                          !.selectFocused = TRUE],
                Null, wts)

\* listWorktrees(...).filter(wt => !isMainWorktree(repoRoot, wt.path))
Deletable(s, wts) ==
  SelectSeq(listWorktrees(wts),
            LAMBDA wt : ~isMainWorktree(s.repoRoot, wt.path))

\* an entry into select mode that keeps the selected set of an earlier visit
enterSelectMode_KeepsSelection(s, wts) ==
  IF s.repoRoot = Null THEN setStatus(s, "No git repository found.")
  ELSE IF Len(Deletable(s, wts)) = 0
    THEN setStatus(s, "No worktrees available for deletion.")
  ELSE
    LET s1 == [s EXCEPT !.isSelectingForDelete = TRUE]
    IN  setStatus(SetOptions(s1, buildOptions(s1, Deletable(s1, wts))),
                  "Select worktrees to delete, then press 'd' to confirm.")

enterSelectMode(s, wts) ==
  IF s.repoRoot = Null THEN setStatus(s, "No git repository found.")
  ELSE IF Len(Deletable(s, wts)) = 0
    THEN setStatus(s, "No worktrees available for deletion.")
  ELSE
    LET s1 == [s EXCEPT !.isSelectingForDelete = TRUE,
                        !.selectedForDelete = {}]
    IN  setStatus(SetOptions(s1, buildOptions(s1, Deletable(s1, wts))),
                  "Select worktrees to delete, then press 'd' to confirm.")

exitSelectMode(s, wts) ==
  loadWorktrees([s EXCEPT !.isSelectingForDelete = FALSE,
                          !.selectedForDelete = {}],
                Null, wts)

\* toggleWorktreeSelection that takes the record at the selected index from
\* the full worktree list instead of the listed options, with no main check
toggleWorktreeSelection_FullListIndex(s, wts) ==
  IF ~(s.selectedIndex + 1 \in 1..Len(listWorktrees(wts))) THEN s
  ELSE
    LET worktree == listWorktrees(wts)[s.selectedIndex + 1]
        s1 == [s EXCEPT !.selectedForDelete =
                 IF worktree.path \in s.selectedForDelete
                   THEN s.selectedForDelete \ {worktree.path}
                   ELSE s.selectedForDelete \cup {worktree.path}]
    IN  setStatus(s1, Plural(Cardinality(s1.selectedForDelete))
                      \o " selected for deletion.")

toggleWorktreeSelection(s, wts) ==
  IF ~(s.selectedIndex + 1 \in 1..Len(s.options)) THEN s
  ELSE
    LET worktree == s.options[s.selectedIndex + 1] IN
    IF ~Truthy(worktree.path) THEN s
    ELSE IF s.repoRoot # Null /\ isMainWorktree(s.repoRoot, worktree.path)
      THEN setStatus(s, "Cannot delete the main worktree.")
    ELSE
      LET s1 == [s EXCEPT !.selectedForDelete =
                   IF worktree.path \in s.selectedForDelete
                     THEN s.selectedForDelete \ {worktree.path}
                     ELSE s.selectedForDelete \cup {worktree.path}]
          s2 == IF s1.repoRoot # Null
                  THEN setSelectedIndex(
                         SetOptions(s1, buildOptions(s1, Deletable(s1, wts))),
                         s.selectedIndex)
                  ELSE s1
          count == Cardinality(s2.selectedForDelete)
      IN  setStatus(s2,
            IF count = 0
              THEN "Select worktrees to delete, then press 'd' to confirm."
              ELSE Plural(count) \o " selected for deletion.")

showBatchDeleteConfirmation(s, worktrees, wts) ==
  LET hasDirty == \E i \in 1..Len(worktrees) :
                    hasUncommittedChanges(wts, worktrees[i].path)
  IN  setStatus([s EXCEPT !.isConfirming = TRUE,
                          !.isSelectingForDelete = FALSE,
                          !.selectVisible = FALSE,
                          !.selectFocused = FALSE,
                          !.confirmSelect = TRUE,
                          !.worktreesToDelete = worktrees],
                IF hasDirty
                  THEN "Warning: Some worktrees have uncommitted changes!"
                  ELSE "Ready to remove " \o Plural(Len(worktrees)) \o ".")

confirmBatchDelete(s, wts) ==
  IF Cardinality(s.selectedForDelete) = 0
    THEN setStatus(s, "No worktrees selected. Use Enter to select.")
  ELSE IF s.repoRoot = Null THEN s
  ELSE showBatchDeleteConfirmation(s,
         SelectSeq(listWorktrees(wts),
                   LAMBDA wt : wt.path \in s.selectedForDelete),
         wts)

\* cleanup(shouldExit): the session's part; the process exit is the action's
cleanup(s) == [s EXCEPT !.selectFocused = FALSE]

(***************************************************************************)
(* Batch unlink / delete (handleBatchConfirmAction) with the accessor's     *)
(* unlinkWorktree and two-phase deleteWorktree inlined.                    *)
(***************************************************************************)
\* no batch loop ran
NoBatch ==
  [action |-> Null, count |-> 0, successCount |-> 0, failCount |-> 0,
   unlinkFailed |-> 0, branchFailed |-> 0]

\* no hook callback: id is the hook run a callback belongs to, success and
\* exitCode the HookResult of a completion, data the chunk of an output
NoResult == [id |-> 0, success |-> FALSE, exitCode |-> Null, data |-> <<>>]

\* record of a callback that issued no external call; report is the outcome
\* message a remove handler sets before it closes its dialog
Ran(op) ==
  [op |-> op, calls |-> <<>>, batch |-> NoBatch, report |-> Null,
   result |-> NoResult]

\* what the version-control tool does with one item of a batch
Outcomes == {"ok", "unlinkFails", "branchFails"}

Call(op, path, branch, force) ==
  [op |-> op, path |-> path, branch |-> branch, force |-> force]

\* unlinkWorktree(repoRoot, path, force): force is required when dirty
unlinkWorktree(wts, path, force, outcome) ==
  LET ok == /\ outcome # "unlinkFails"
            /\ \E r \in wts : r.path = path
            /\ hasUncommittedChanges(wts, path) => force
  IN  [success |-> ok,
       wts |-> IF ok THEN Unlinked(wts, path) ELSE wts,
       calls |-> <<Call("unlink", path, Null, force)>>]

\* a deleteWorktree that goes on to the branch delete after a failed unlink
deleteWorktree_BranchDeleteRegardless(wts, path, branch, force, outcome) ==
  LET u == unlinkWorktree(wts, path, force, outcome) IN
  [success |-> u.success /\ outcome # "branchFails",
   step |-> IF outcome = "branchFails" THEN "branch"
            ELSE IF ~u.success THEN "unlink" ELSE Null,
   wts |-> u.wts,
   calls |-> u.calls \o <<Call("branchDelete", Null, branch, TRUE)>>]

\* deleteWorktree(repoRoot, path, branch, force): unlink, then the forced
\* delete of the local branch; a failed unlink skips the branch step
deleteWorktree(wts, path, branch, force, outcome) ==
  LET u == unlinkWorktree(wts, path, force, outcome) IN
  IF ~u.success
    THEN [success |-> FALSE, step |-> "unlink", wts |-> u.wts,
          calls |-> u.calls]
    ELSE [success |-> outcome # "branchFails",
          step |-> IF outcome = "branchFails" THEN "branch" ELSE Null,
          wts |-> u.wts,
          calls |-> u.calls \o <<Call("branchDelete", Null, branch, TRUE)>>]

\* a loop body that never passes force to the accessor
BatchStep_NeverForces(acc, worktree, action, outcome) ==
  LET result ==
        IF action = CONFIRM_UNLINK_VALUE \/ ~Truthy(worktree.branch)
          THEN unlinkWorktree(acc.wts, worktree.path, FALSE, outcome)
          ELSE deleteWorktree(acc.wts, worktree.path, worktree.branch,
                              FALSE, outcome)
      unlinked ==
        unlinkWorktree(acc.wts, worktree.path, FALSE, outcome).success
  IN  [wts |-> result.wts,
       successCount |-> acc.successCount + (IF result.success THEN 1 ELSE 0),
       failCount |-> acc.failCount + (IF result.success THEN 0 ELSE 1),
       calls |-> acc.calls \o result.calls,
       unlinkFailed |-> acc.unlinkFailed + (IF unlinked THEN 0 ELSE 1),
       branchFailed |-> acc.branchFailed +
         (IF unlinked /\ ~result.success THEN 1 ELSE 0)]

\* a loop body that gives up after the first failed item
BatchStep_StopsAtFailure(acc, worktree, action, outcome) ==
  IF acc.failCount > 0 THEN acc
  ELSE
    LET isDirty == hasUncommittedChanges(acc.wts, worktree.path)
        unlinked ==
          unlinkWorktree(acc.wts, worktree.path, isDirty, outcome).success
        result ==
          IF action = CONFIRM_UNLINK_VALUE \/ ~Truthy(worktree.branch)
            THEN unlinkWorktree(acc.wts, worktree.path, isDirty, outcome)
            ELSE deleteWorktree(acc.wts, worktree.path, worktree.branch,
                                isDirty, outcome)
    IN  [wts |-> result.wts,
         successCount |-> acc.successCount + (IF result.success THEN 1 ELSE 0),
         failCount |-> acc.failCount + (IF result.success THEN 0 ELSE 1),
         calls |-> acc.calls \o result.calls,
         unlinkFailed |-> acc.unlinkFailed + (IF unlinked THEN 0 ELSE 1),
         branchFailed |-> acc.branchFailed +
           (IF unlinked /\ ~result.success THEN 1 ELSE 0)]

\* one iteration of the for loop; acc is [wts, successCount, failCount, calls,
\* unlinkFailed, branchFailed], the last two counting the items whose unlink
\* failed and those whose branch delete failed after the unlink
BatchStep(acc, worktree, action, outcome) ==
  LET isDirty == hasUncommittedChanges(acc.wts, worktree.path)
      unlinked == unlinkWorktree(acc.wts, worktree.path, isDirty, outcome).success
      result ==
        IF action = CONFIRM_UNLINK_VALUE \/ ~Truthy(worktree.branch)
          THEN unlinkWorktree(acc.wts, worktree.path, isDirty, outcome)
          ELSE deleteWorktree(acc.wts, worktree.path, worktree.branch,
                              isDirty, outcome)
  IN  [wts |-> result.wts,
       successCount |-> acc.successCount + (IF result.success THEN 1 ELSE 0),
       failCount |-> acc.failCount + (IF result.success THEN 0 ELSE 1),
       calls |-> acc.calls \o result.calls,
       unlinkFailed |-> acc.unlinkFailed +
         (IF unlinked THEN 0 ELSE 1),
       branchFailed |-> acc.branchFailed +
         (IF unlinked /\ ~result.success THEN 1 ELSE 0)]

RECURSIVE BatchLoop(_, _, _, _, _)
BatchLoop(acc, worktrees, i, action, outcomes) ==
  IF i > Len(worktrees) THEN acc
  ELSE BatchLoop(BatchStep(acc, worktrees[i], action, outcomes[i]),
                 worktrees, i + 1, action, outcomes)

\* the status line the batch sets before it closes the dialog
BatchStatus(action, successCount, failCount) ==
  IF failCount = 0
    THEN "Successfully "
         \o (IF action = CONFIRM_UNLINK_VALUE THEN "unlinked" ELSE "deleted")
         \o " " \o Plural(successCount) \o "."
    ELSE "Completed with " \o ToString(successCount) \o " success, "
         \o ToString(failCount) \o " failed."

\* handleBatchConfirmAction: the session, the repository and the calls after
handleBatchConfirmAction(s, action, worktrees, wts, outcomes) ==
  IF action = CONFIRM_CANCEL_VALUE \/ s.repoRoot = Null
    THEN [ui |-> hideConfirmDialog([s EXCEPT !.selectedForDelete = {}], wts),
          wts |-> wts, calls |-> <<>>, batch |-> NoBatch, report |-> Null]
    ELSE
      LET r == BatchLoop([wts |-> wts, successCount |-> 0, failCount |-> 0,
                          calls |-> <<>>, unlinkFailed |-> 0,
                          branchFailed |-> 0],
                         worktrees, 1, action, outcomes)
          s1 == setStatus([s EXCEPT !.selectedForDelete = {}],
                          BatchStatus(action, r.successCount, r.failCount))
      IN  [ui |-> hideConfirmDialog(s1, r.wts),
           wts |-> r.wts, calls |-> r.calls,
           batch |-> [action |-> action,
                      count |-> Len(worktrees),
                      successCount |-> r.successCount,
                      failCount |-> r.failCount,
                      unlinkFailed |-> r.unlinkFailed,
                      branchFailed |-> r.branchFailed],
           report |-> s1.status]

(***************************************************************************)
(* Single-record remove dialog (showDeleteConfirmation, handleConfirmAction).*)
(* No branch of handleKeypress calls showDeleteConfirmation, so Spec never *)
(* enters this dialog; SpecConfirmSingle below applies the two methods to  *)
(* the list states of a session to check them on their own.                *)
(***************************************************************************)
\* showDeleteConfirmation; confirmIsDirty is the isDirty its handler captures
showDeleteConfirmation(s, wts) ==
  LET worktree == getSelectedWorktree(s)
      isDirty == hasUncommittedChanges(wts, worktree.path)
  IN  IF worktree = NoWorktree
        THEN setStatus(s, "Select a worktree to delete.")
      ELSE IF s.repoRoot = Null
        THEN setStatus(s, "No git repository found.")
      ELSE IF isMainWorktree(s.repoRoot, worktree.path)
        THEN setStatus(s, "Cannot delete the main worktree.")
      ELSE setStatus([s EXCEPT !.isConfirming = TRUE,
                               !.confirmingWorktree = worktree,
                               !.selectVisible = FALSE,
                               !.selectFocused = FALSE,
                               !.confirmSelect = TRUE,
                               !.confirmIsDirty = isDirty],
                     IF isDirty
                       THEN "Warning: Uncommitted changes will be lost!"
                       ELSE "Choose how to remove this worktree.")

\* `worktree.branch || basename(worktree.path)`
BranchName(worktree) ==
  IF Truthy(worktree.branch) THEN worktree.branch
  ELSE IF worktree.path = "/w/d" THEN "d"
  ELSE IF worktree.path = "/w/a" THEN "a" ELSE "r"

\* handleConfirmAction: the session, the repository, the calls made and the
\* outcome message set before the dialog is closed
handleConfirmAction(s, action, isDirty, wts, outcome) ==
  LET worktree == s.confirmingWorktree
      branchName == BranchName(worktree)
      u == unlinkWorktree(wts, worktree.path, isDirty, outcome)
      d == deleteWorktree(wts, worktree.path, worktree.branch, isDirty, outcome)
      Done(message, after, calls) ==
        [ui |-> hideConfirmDialog(setStatus(s, message), after),
         wts |-> after, calls |-> calls, report |-> message]
  IN  IF action = CONFIRM_CANCEL_VALUE
           \/ worktree = NoWorktree \/ s.repoRoot = Null
        THEN [ui |-> hideConfirmDialog(s, wts), wts |-> wts,
              calls |-> <<>>, report |-> Null]
      ELSE IF action = CONFIRM_UNLINK_VALUE
        THEN Done(IF u.success
                    THEN "Worktree unlinked. Branch '" \o branchName
                         \o "' is still available."
                    ELSE "Failed to unlink: " \o GitError,
                  u.wts, u.calls)
      ELSE IF ~Truthy(worktree.branch)
        THEN Done("Cannot delete branch: detached HEAD.", wts, <<>>)
      ELSE Done(IF d.success
                  THEN "Worktree and local branch '" \o branchName
                       \o "' deleted."
                ELSE IF d.step = "unlink"
                  THEN "Failed to remove worktree: " \o GitError
                  ELSE "Worktree removed but failed to delete branch: "
                       \o GitError,
                d.wts, d.calls)

(***************************************************************************)
(* The event loop.                                                         *)
(***************************************************************************)
\* a key dispatch without the early return of hook-running mode
KeyBranch_NoHookGate(s) ==
  IF s.isRunningHook /\ s.hookFailed THEN "hookFailed"
  ELSE IF s.isConfirming THEN "confirm"
  ELSE IF s.isCreatingWorktree THEN "create"
  ELSE IF s.isEditingConfig THEN "config"
  ELSE IF s.isSelectingForDelete THEN "select"
  ELSE "browse"

\* a key dispatch that forgets the multi-select branch
KeyBranch_SelectFallsThrough(s) ==
  IF s.isRunningHook /\ ~s.hookFailed THEN "hookRunning"
  ELSE IF s.isRunningHook /\ s.hookFailed THEN "hookFailed"
  ELSE IF s.isConfirming THEN "confirm"
  ELSE IF s.isCreatingWorktree THEN "create"
  ELSE IF s.isEditingConfig THEN "config"
  ELSE "browse"

\* the branch of handleKeypress a key other than Ctrl+C is handled in
KeyBranch(s) ==
  IF s.isRunningHook /\ ~s.hookFailed THEN "hookRunning"
  ELSE IF s.isRunningHook /\ s.hookFailed THEN "hookFailed"
  ELSE IF s.isConfirming THEN "confirm"
  ELSE IF s.isCreatingWorktree THEN "create"
  ELSE IF s.isEditingConfig THEN "config"
  ELSE IF s.isSelectingForDelete THEN "select"
  ELSE "browse"

\* hook processes started so far
Started == Cardinality({i \in 1..MaxHooks : hooks[i] # "idle"})

\* the session object as the field initialisers leave it
NewSelector ==
  [isConfirming |-> FALSE, isCreatingWorktree |-> FALSE,
   isSelectingForDelete |-> FALSE, isEditingConfig |-> FALSE,
   isRunningHook |-> FALSE, hookFailed |-> FALSE, isFirstTimeSetup |-> FALSE,
   confirmingWorktree |-> NoWorktree, confirmSelect |-> FALSE,
   confirmIsDirty |-> FALSE,
   worktreesToDelete |-> <<>>, selectedForDelete |-> {},
   options |-> <<>>, selectedIndex |-> 0,
   selectVisible |-> TRUE, selectFocused |-> FALSE,
   status |-> "", repoRoot |-> Null, repoConfig |-> EmptyConfig,
   opencodeAvailable |-> FALSE, branchInput |-> FALSE,
   hookOutput |-> <<>>, hookAbortFn |-> 0, pendingWorktreePath |-> Null,
   hookOutputContainer |-> FALSE, hookOutputText |-> <<>>,
   hookFailureSelect |-> FALSE,
   configContainer |-> FALSE, configActiveField |-> "hook"]

\* the WorktreeSelector constructor
Constructor(wts, file) ==
  LET s1 == [NewSelector EXCEPT !.repoRoot = resolveRepoRoot]
      s2 == [s1 EXCEPT !.repoConfig =
               IF s1.repoRoot # Null THEN loadRepoConfig(file) ELSE EmptyConfig]
      s3 == [s2 EXCEPT !.opencodeAvailable =
               isCommandAvailable(OrOpencode(s2.repoConfig.launchCommand))]
      s4 == [s3 EXCEPT !.options =
               IF s3.repoRoot = Null THEN <<>>
               ELSE buildOptions(s3, listWorktrees(wts))]
      s5 == [setStatus(s4, getInitialStatusMessage(s4))
               EXCEPT !.selectFocused = TRUE]
  IN  IF s5.repoRoot # Null /\ ~configExists(file)
        THEN showFirstTimeSetup(s5)
        ELSE s5

\* worktrees a repository can hold besides the main one when the session starts
InitialExtras ==
  { {[path |-> "/w/d", branch |-> Null, dirty |-> FALSE]} }

InitialFiles == {NoFile, FileOf(ConfigOf("npm i", "", ""))}

InitialCommands == {{"opencode"}}

Init ==
  /\ repoExists \in BOOLEAN
  /\ gitWorktrees \in
       IF repoExists THEN {{MainWorktree} \cup x : x \in InitialExtras}
       ELSE {{}}
  /\ configFile \in IF repoExists THEN InitialFiles ELSE {NoFile}
  /\ availCmds \in InitialCommands
  /\ ui = Constructor(gitWorktrees, configFile)
  /\ hooks = [i \in 1..MaxHooks |-> "idle"]
  /\ timers = 0
  /\ proc = "ui"
  /\ launches = <<>>
  /\ exitCode = Null
  /\ last = Ran("constructor")
  /\ document = OtherDocument("missing")
  /\ resolved = NoCall

EnvUnchanged == UNCHANGED <<repoExists, availCmds, document, resolved>>

\* process.exit(code): the session object, its timers and its hook callbacks
\* end with the process; the repository, the config file and the record of
\* the launches made remain
ProcessExit(code) ==
  /\ proc' = "exited"
  /\ exitCode' = code
  /\ ui' = NewSelector
  /\ timers' = 0
  /\ hooks' = [i \in 1..MaxHooks |-> "idle"]
  /\ UNCHANGED <<gitWorktrees, configFile, launches>>
  /\ EnvUnchanged

\* cleanup(true): renderer destroyed and process.exit(0)
Exit(op) ==
  /\ ProcessExit("0")
  /\ last' = Ran(op)

\* a launch that leaves the child in the session's own working directory
Launch_InProcessCwd(s, cwd, customCommand) ==
  /\ ui' = cleanup(s)
  /\ proc' = "launched"
  /\ launches' = Append(launches, [cwd |-> RepoRootPath,
                                   command |-> OrOpencode(customCommand)])

\* cleanup(false); launchCommand(cwd, customCommand) on session record s
Launch(s, cwd, customCommand) ==
  /\ ui' = cleanup(s)
  /\ proc' = "launched"
  /\ launches' = Append(launches,
                        [cwd |-> cwd, command |-> OrOpencode(customCommand)])

\* a callback that only changes the session object
SessionOnly(op, s) ==
  /\ ui' = s
  /\ last' = Ran(op)
  /\ UNCHANGED <<gitWorktrees, configFile, hooks, timers, proc, launches,
                 exitCode>>
  /\ EnvUnchanged

(***************************************************************************)
(* Key events (handleKeypress).  A key that the active mode ignores        *)
(* changes nothing and is no step.                                         *)
(***************************************************************************)
\* Ctrl+C while a hook runs and its abort handle is held
AbortHook ==
  /\ proc = "ui"
  /\ ui.isRunningHook /\ ui.hookAbortFn # 0
  /\ hooks' = [hooks EXCEPT ![ui.hookAbortFn] =
                 IF @ = "running" THEN "killed" ELSE @]
  /\ ui' = ReturnToList(
             setStatus([ui EXCEPT !.hookAbortFn = 0], "Hook aborted by user."),
             gitWorktrees)
  /\ last' = Ran("AbortHook")
  /\ UNCHANGED <<gitWorktrees, configFile, timers, proc, launches, exitCode>>
  /\ EnvUnchanged

\* Ctrl+C otherwise: the global force-quit
ForceQuit ==
  /\ proc = "ui"
  /\ ~(ui.isRunningHook /\ ui.hookAbortFn # 0)
  /\ Exit("ForceQuit")

\* q or Escape in the list
Quit ==
  /\ proc = "ui"
  /\ KeyBranch(ui) = "browse"
  /\ Exit("Quit")

\* r
Refresh ==
  /\ proc = "ui"
  /\ KeyBranch(ui) = "browse"
  /\ SessionOnly("Refresh", loadWorktrees(ui, Null, gitWorktrees))

\* n
NewWorktreeKey ==
  /\ proc = "ui"
  /\ KeyBranch(ui) = "browse"
  /\ SessionOnly("NewWorktreeKey", showCreateWorktreeInput(ui))

\* d in the list
EnterSelectMode ==
  /\ proc = "ui"
  /\ KeyBranch(ui) = "browse"
  /\ SessionOnly("EnterSelectMode", enterSelectMode(ui, gitWorktrees))

\* o: openWorktreeInFileManager; spawnOk is whether the spawn threw
openWorktreeInFileManager(s, file, spawnOk) ==
  LET worktree == getSelectedWorktree(s)
      customCommand ==
        IF s.repoRoot # Null THEN loadRepoConfig(file).openCommand ELSE Null
  IN  IF worktree = NoWorktree
        THEN setStatus(s, "Select a worktree to open in file manager.")
      ELSE IF ~spawnOk THEN setStatus(s, "Failed to open file manager.")
      ELSE IF Truthy(customCommand)
        THEN setStatus(s, "Opened " \o worktree.path \o " with "
                          \o customCommand \o ".")
      ELSE setStatus(s, "Opened " \o worktree.path \o " in file manager.")

OpenFolder ==
  /\ proc = "ui"
  /\ KeyBranch(ui) = "browse"
  /\ \E spawnOk \in BOOLEAN :
       SessionOnly("OpenFolder",
                   openWorktreeInFileManager(ui, configFile, spawnOk))

\* c
EditConfig ==
  /\ proc = "ui"
  /\ KeyBranch(ui) = "browse"
  /\ SessionOnly("EditConfig", showConfigEditor(ui))

\* Escape in the create dialog
CreateEscape ==
  /\ proc = "ui"
  /\ KeyBranch(ui) = "create"
  /\ SessionOnly("CreateEscape",
                 hideCreateWorktreeInput(ui, Null, gitWorktrees))

\* an Escape that runs the dialog's default option, unlink, instead of
\* closing the dialog
ConfirmEscape_RunsDefaultOption ==
  /\ proc = "ui"
  /\ KeyBranch(ui) = "confirm"
  /\ LET r == IF ui.confirmingWorktree = NoWorktree
                THEN handleBatchConfirmAction(
                       ui, CONFIRM_UNLINK_VALUE, ui.worktreesToDelete,
                       gitWorktrees,
                       [i \in 1..Len(ui.worktreesToDelete) |-> "ok"])
                ELSE handleConfirmAction(ui, CONFIRM_UNLINK_VALUE,
                                         ui.confirmIsDirty, gitWorktrees, "ok")
     IN  /\ ui' = r.ui
         /\ gitWorktrees' = r.wts
         /\ last' = [Ran("ConfirmEscape") EXCEPT !.calls = r.calls]
  /\ UNCHANGED <<configFile, hooks, timers, proc, launches, exitCode>>
  /\ EnvUnchanged

\* Escape in a confirm dialog
ConfirmEscape ==
  /\ proc = "ui"
  /\ KeyBranch(ui) = "confirm"
  /\ SessionOnly("ConfirmEscape", hideConfirmDialog(ui, gitWorktrees))

\* Escape in the config editor
ConfigEscape ==
  /\ proc = "ui"
  /\ KeyBranch(ui) = "config"
  /\ SessionOnly("ConfigEscape", hideConfigEditor(ui))

\* Tab in the config editor
ConfigTab ==
  /\ proc = "ui"
  /\ KeyBranch(ui) = "config"
  /\ SessionOnly("ConfigTab",
       [ui EXCEPT !.configActiveField =
          IF @ = "hook" THEN "open" ELSE IF @ = "open" THEN "launch" ELSE "hook"])

RECURSIVE Join(_, _)
\* Array.prototype.join
Join(parts, sep) ==
  IF Len(parts) = 0 THEN ""
  ELSE IF Len(parts) = 1 THEN parts[1]
  ELSE parts[1] \o sep \o Join(Tail(parts), sep)

\* the `changes` list of handleConfigSave
ConfigChanges(config) ==
  (IF config.postCreateHook # Null
     THEN <<"hook: \"" \o config.postCreateHook \o "\"">> ELSE <<>>)
  \o (IF config.openCommand # Null
        THEN <<"open: \"" \o config.openCommand \o "\"">> ELSE <<>>)
  \o (IF config.launchCommand # Null
        THEN <<"launch: \"" \o config.launchCommand \o "\"">> ELSE <<>>)

\* a save handler that takes the new config whatever saveRepoConfig returned
handleConfigSave_KeepsFailedConfig(s, config, success) ==
  IF s.repoRoot = Null
    THEN hideConfigEditor(setStatus(s, "No git repository found."))
  ELSE
    LET s1 == [s EXCEPT !.repoConfig = config,
                        !.opencodeAvailable =
                          isCommandAvailable(OrOpencode(config.launchCommand))]
    IN  hideConfigEditor(
          setStatus(s1, IF success THEN "Config saved."
                        ELSE "Failed to save config."))

\* handleConfigSave after saveRepoConfig returned success
handleConfigSave(s, config, success) ==
  IF s.repoRoot = Null
    THEN hideConfigEditor(setStatus(s, "No git repository found."))
  ELSE IF success
    THEN
      LET s1 == [s EXCEPT !.repoConfig = config,
                          !.opencodeAvailable =
                            isCommandAvailable(OrOpencode(config.launchCommand))]
      IN  hideConfigEditor(
            setStatus(s1, IF Len(ConfigChanges(config)) > 0
                            THEN "Config saved: "
                                 \o Join(ConfigChanges(config), ", ")
                            ELSE "Config cleared."))
  ELSE hideConfigEditor(setStatus(s, "Failed to save config."))

\* Return in the config editor
ConfigSave ==
  /\ proc = "ui"
  /\ KeyBranch(ui) = "config"
  /\ \E hookValue \in HookValues, openValue \in OpenValues,
        launchValue \in LaunchValues, writeOk \in BOOLEAN :
       LET config == ConfigOf(hookValue, openValue, launchValue) IN
       /\ ui' = handleConfigSave(ui, config, writeOk)
       /\ configFile' = IF ui.repoRoot # Null /\ writeOk
                          THEN FileOf(config) ELSE configFile
       /\ last' = [Ran("ConfigSave") EXCEPT
                     !.calls =
                       IF ui.repoRoot # Null
                         THEN <<Call("saveRepoConfig", ui.repoRoot, Null, FALSE)>>
                         ELSE <<>>,
                     !.result.success = ui.repoRoot # Null /\ writeOk]
  /\ UNCHANGED <<gitWorktrees, hooks, timers, proc, launches, exitCode>>
  /\ EnvUnchanged

\* Escape or q in multi-select
ExitSelectMode ==
  /\ proc = "ui"
  /\ KeyBranch(ui) = "select"
  /\ SessionOnly("ExitSelectMode", exitSelectMode(ui, gitWorktrees))

\* Return in multi-select
ToggleSelection ==
  /\ proc = "ui"
  /\ KeyBranch(ui) = "select"
  /\ SessionOnly("ToggleSelection", toggleWorktreeSelection(ui, gitWorktrees))

\* d in multi-select
ConfirmBatchDelete ==
  /\ proc = "ui"
  /\ KeyBranch(ui) = "select"
  /\ SessionOnly("ConfirmBatchDelete", confirmBatchDelete(ui, gitWorktrees))

\* Escape in hook-failure mode, or a choice made in the failure select
HookFailureChoice ==
  /\ proc = "ui"
  /\ KeyBranch(ui) = "hookFailed"
  /\ \E choice \in {"open", "cancel"} :
       /\ choice = "open" => ui.hookFailureSelect
       /\ IF choice = "open" /\ Truthy(ui.pendingWorktreePath)
            THEN LET s1 == hideHookOutput(ui) IN
                 /\ Launch(s1, s1.pendingWorktreePath,
                           s1.repoConfig.launchCommand)
                 /\ last' = Ran("LaunchAnyway")
            ELSE /\ ui' = ReturnToList(ui, gitWorktrees)
                 /\ last' = Ran("HookFailureCancel")
                 /\ UNCHANGED <<proc, launches>>
  /\ UNCHANGED <<gitWorktrees, configFile, hooks, timers, exitCode>>
  /\ EnvUnchanged

(***************************************************************************)
(* Widget events.                                                          *)
(***************************************************************************)
\* up / down in the focused list (wrapSelection)
MoveSelection ==
  /\ proc = "ui"
  /\ ui.selectFocused /\ Len(ui.options) > 0
  /\ \E step \in {1, Len(ui.options) - 1} :
       SessionOnly("MoveSelection",
         [ui EXCEPT !.selectedIndex = (@ + step) % Len(ui.options)])

\* a selection that launches without consulting the availability flag
ItemSelected_LaunchesUnchecked ==
  /\ proc = "ui"
  /\ ui.selectFocused /\ ui.selectedIndex + 1 \in 1..Len(ui.options)
  /\ ~(ui.isConfirming \/ ui.isCreatingWorktree \/ ui.isSelectingForDelete)
  /\ LET value == ui.options[ui.selectedIndex + 1] IN
     IF value = CREATE_NEW_WORKTREE_VALUE
       THEN SessionOnly("SelectCreateNew", showCreateWorktreeInput(ui))
     ELSE /\ Launch(ui, value.path, ui.repoConfig.launchCommand)
          /\ last' = Ran("SelectLaunch")
          /\ UNCHANGED <<gitWorktrees, configFile, hooks, timers, exitCode>>
          /\ EnvUnchanged

\* ITEM_SELECTED of the list: the handler's own guard, then handleSelection
ItemSelected ==
  /\ proc = "ui"
  /\ ui.selectFocused /\ ui.selectedIndex + 1 \in 1..Len(ui.options)
  /\ ~(ui.isConfirming \/ ui.isCreatingWorktree \/ ui.isSelectingForDelete)
  /\ LET value == ui.options[ui.selectedIndex + 1] IN
     IF value = CREATE_NEW_WORKTREE_VALUE
       THEN SessionOnly("SelectCreateNew", showCreateWorktreeInput(ui))
     ELSE IF ~ui.opencodeAvailable
       THEN SessionOnly("SelectUnavailable",
              setStatus(ui, OrOpencode(ui.repoConfig.launchCommand)
                            \o " is not available on PATH."))
     ELSE /\ Launch(ui, value.path, ui.repoConfig.launchCommand)
          /\ last' = Ran("SelectLaunch")
          /\ UNCHANGED <<gitWorktrees, configFile, hooks, timers, exitCode>>
          /\ EnvUnchanged

\* CHANGE of the branch input: handleCreateWorktree(value).  gitOk is whether
\* the version-control tool succeeds where it can.
CreateSubmit ==
  /\ proc = "ui"
  /\ ui.branchInput
  /\ \E value \in BranchInputs, gitOk \in BOOLEAN :
       LET trimmed == Trim(value)
           path == PathOf(trimmed)
           success == gitOk /\ CanCreate(gitWorktrees, trimmed)
           config == loadRepoConfig(configFile)
           id == Started + 1
       IN
       IF ~Truthy(trimmed)
         THEN SessionOnly("CreateEmpty",
                          setStatus(ui, "Branch name cannot be empty."))
       ELSE IF ui.repoRoot = Null
         THEN SessionOnly("CreateNoRepo",
                          setStatus(ui, "No git repository found."))
       ELSE IF ~success
         THEN /\ ui' = setStatus(ui, "Failed to create worktree: " \o GitError)
              /\ last' = [Ran("CreateFailed") EXCEPT
                            !.calls = <<Call("create", path, trimmed, FALSE)>>]
              /\ UNCHANGED <<gitWorktrees, configFile, hooks, timers, proc,
                             launches, exitCode>>
              /\ EnvUnchanged
       ELSE IF Truthy(config.postCreateHook)
         THEN /\ id <= MaxHooks
              /\ gitWorktrees' = Created(gitWorktrees, trimmed)
              /\ hooks' = [hooks EXCEPT ![id] = "running"]
              /\ ui' = runHook(
                         [setStatus(ui, "Worktree created at " \o path)
                            EXCEPT !.pendingWorktreePath = path],
                         id)
              /\ last' = [Ran("CreateWithHook") EXCEPT
                            !.calls = <<Call("create", path, trimmed, FALSE)>>]
              /\ UNCHANGED <<configFile, timers, proc, launches, exitCode>>
              /\ EnvUnchanged
       ELSE /\ gitWorktrees' = Created(gitWorktrees, trimmed)
            /\ Launch(hideCreateWorktreeInput(
                        setStatus(ui, "Worktree created at " \o path),
                        Null, gitWorktrees'),
                      path, ui.repoConfig.launchCommand)
            /\ last' = [Ran("CreateAndLaunch") EXCEPT
                          !.calls = <<Call("create", path, trimmed, FALSE)>>]
            /\ UNCHANGED <<configFile, hooks, timers, exitCode>>
            /\ EnvUnchanged

\* ITEM_SELECTED of the batch confirm dialog
ConfirmAction ==
  /\ proc = "ui"
  /\ ui.confirmSelect /\ ui.confirmingWorktree = NoWorktree
  /\ \E action \in ConfirmActions,
        outcomes \in [1..Len(ui.worktreesToDelete) -> Outcomes] :
       LET r == handleBatchConfirmAction(ui, action, ui.worktreesToDelete,
                                         gitWorktrees, outcomes)
       IN  /\ ui' = r.ui
           /\ gitWorktrees' = r.wts
           /\ last' = [op |-> IF action = CONFIRM_CANCEL_VALUE
                                THEN "ConfirmCancel" ELSE "Batch",
                       calls |-> r.calls, batch |-> r.batch,
                       report |-> r.report, result |-> NoResult]
  /\ UNCHANGED <<configFile, hooks, timers, proc, launches, exitCode>>
  /\ EnvUnchanged

(***************************************************************************)
(* Hook runner (hooks.js): the child process, its output and completion     *)
(* callbacks, and the display-delay timer of onHookSuccess.                *)
(***************************************************************************)
\* onOutput(data)
HookOutput ==
  /\ proc # "exited"
  /\ Len(ui.hookOutput) < MaxOutput
  /\ \E id \in 1..MaxHooks, data \in Chunks :
       /\ hooks[id] \in {"running", "killed"}
       /\ ui' = updateHookOutput([ui EXCEPT !.hookOutput = Append(@, data)])
       /\ last' = [Ran("HookOutput") EXCEPT !.result.id = id,
                                            !.result.data = data]
  /\ UNCHANGED <<gitWorktrees, configFile, hooks, timers, proc, launches,
                 exitCode>>
  /\ EnvUnchanged

\* what the single completion callback of a hook process can report: any
\* exit of its own while it runs, a failure once termination was signalled
ResultsOf(state) ==
  IF state = "killed"
    THEN {r \in HookResults : ~r.success}
    ELSE HookResults

\* an onComplete that takes any exit code, rather than success, for success
HookComplete_DispatchOnExitCode ==
  /\ proc # "exited"
  /\ \E id \in 1..MaxHooks :
       /\ hooks[id] \in {"running", "killed"}
       /\ hooks' = [hooks EXCEPT ![id] = "done"]
       /\ \E result \in ResultsOf(hooks[id]) :
            LET s1 == [ui EXCEPT !.hookAbortFn = 0]
                r == [id |-> id, success |-> result.success,
                      exitCode |-> result.exitCode, data |-> <<>>]
            IN
            IF result.exitCode # Null
              THEN /\ ui' = onHookSuccess(s1)
                   /\ timers' = timers + 1
                   /\ last' = [Ran("HookSucceeded") EXCEPT !.result = r]
              ELSE /\ ui' = onHookFailure(s1, result.exitCode)
                   /\ timers' = timers
                   /\ last' = [Ran("HookFailed") EXCEPT !.result = r]
  /\ UNCHANGED <<gitWorktrees, configFile, proc, launches, exitCode>>
  /\ EnvUnchanged

\* onComplete(result)
HookComplete ==
  /\ proc # "exited"
  /\ \E id \in 1..MaxHooks :
       /\ hooks[id] \in {"running", "killed"}
       /\ hooks' = [hooks EXCEPT ![id] = "done"]
       /\ \E result \in ResultsOf(hooks[id]) :
            LET s1 == [ui EXCEPT !.hookAbortFn = 0] IN
            IF result.success
              THEN /\ ui' = onHookSuccess(s1)
                   /\ timers' = timers + 1
                   /\ last' = [Ran("HookSucceeded") EXCEPT
                                 !.result = [id |-> id,
                                             success |-> result.success,
                                             exitCode |-> result.exitCode,
                                             data |-> <<>>]]
              ELSE /\ ui' = onHookFailure(s1, result.exitCode)
                   /\ timers' = timers
                   /\ last' = [Ran("HookFailed") EXCEPT
                                 !.result = [id |-> id,
                                             success |-> result.success,
                                             exitCode |-> result.exitCode,
                                             data |-> <<>>]]
  /\ UNCHANGED <<gitWorktrees, configFile, proc, launches, exitCode>>
  /\ EnvUnchanged

\* the setTimeout callback of onHookSuccess
HookSuccessTimer ==
  /\ proc # "exited"
  /\ timers > 0
  /\ timers' = timers - 1
  /\ LET s1 == hideHookOutput(ui) IN
     IF Truthy(s1.pendingWorktreePath)
       THEN Launch(s1, s1.pendingWorktreePath, s1.repoConfig.launchCommand)
       ELSE ui' = s1 /\ UNCHANGED <<proc, launches>>
  /\ last' = Ran("HookSuccessTimer")
  /\ UNCHANGED <<gitWorktrees, configFile, hooks, exitCode>>
  /\ EnvUnchanged

(***************************************************************************)
(* Environment.                                                            *)
(***************************************************************************)
\* files of a linked worktree are edited outside the session
Touch ==
  /\ proc = "ui"
  /\ \E r \in gitWorktrees :
       /\ r.path # RepoRootPath /\ ~r.dirty
       /\ gitWorktrees' = (gitWorktrees \ {r}) \cup {[r EXCEPT !.dirty = TRUE]}
  /\ UNCHANGED <<ui, configFile, hooks, timers, proc, launches, exitCode, last>>
  /\ EnvUnchanged

\* typeof code === "number" ? code : 0
ExitCodeOf(code) == IF code = Null THEN "0" ELSE code

\* the launched tool exits: child.on("exit") calls process.exit(exitCode)
ToolExit ==
  /\ proc = "launched"
  /\ \E code \in ToolExitCodes :
       /\ ProcessExit(ExitCodeOf(code))
       /\ last' = [Ran("ToolExit") EXCEPT !.result.exitCode = code]

Next ==
  \/ AbortHook \/ ForceQuit \/ Quit \/ Refresh \/ NewWorktreeKey
  \/ EnterSelectMode \/ OpenFolder \/ EditConfig
  \/ CreateEscape \/ ConfirmEscape \/ ConfigEscape \/ ConfigTab \/ ConfigSave
  \/ ExitSelectMode \/ ToggleSelection \/ ConfirmBatchDelete
  \/ HookFailureChoice
  \/ MoveSelection \/ ItemSelected \/ CreateSubmit \/ ConfirmAction
  \/ HookComplete \/ HookSuccessTimer
  \/ Touch \/ ToolExit

Spec == Init /\ [][Next]_vars

(***************************************************************************)
(* The remove dialogs on their own: a session over a repository that holds *)
(* a branch worktree and a detached one, with the single-record dialog     *)
(* opened by a direct call of showDeleteConfirmation from the list.        *)
(***************************************************************************)
\* showDeleteConfirmation() applied to the list
DeleteConfirmation ==
  /\ proc = "ui"
  /\ KeyBranch(ui) = "browse"
  /\ SessionOnly("DeleteConfirmation", showDeleteConfirmation(ui, gitWorktrees))

\* ITEM_SELECTED of the single-record confirm dialog
SingleConfirmAction ==
  /\ proc = "ui"
  /\ ui.confirmSelect /\ ui.confirmingWorktree # NoWorktree
  /\ \E action \in ConfirmActions, outcome \in Outcomes :
       LET r == handleConfirmAction(ui, action, ui.confirmIsDirty,
                                    gitWorktrees, outcome)
       IN  /\ ui' = r.ui
           /\ gitWorktrees' = r.wts
           /\ last' = [Ran(IF action = CONFIRM_CANCEL_VALUE
                             THEN "SingleCancel" ELSE "Single")
                         EXCEPT !.calls = r.calls, !.report = r.report,
                                !.batch = [NoBatch EXCEPT !.action = action]]
  /\ UNCHANGED <<configFile, hooks, timers, proc, launches, exitCode>>
  /\ EnvUnchanged

\* linked worktrees the repository can hold when the session starts
LinkedWorktrees ==
  {[path |-> "/w/a", branch |-> "a", dirty |-> FALSE],
   [path |-> "/w/d", branch |-> Null, dirty |-> FALSE]}

InitConfirmSingle ==
  /\ repoExists = TRUE
  /\ gitWorktrees \in {{MainWorktree} \cup x : x \in SUBSET LinkedWorktrees}
  /\ configFile = FileOf(ConfigOf("npm i", "", ""))
  /\ availCmds \in InitialCommands
  /\ ui = Constructor(gitWorktrees, configFile)
  /\ hooks = [i \in 1..MaxHooks |-> "idle"]
  /\ timers = 0
  /\ proc = "ui"
  /\ launches = <<>>
  /\ exitCode = Null
  /\ last = Ran("constructor")
  /\ document = OtherDocument("missing")
  /\ resolved = NoCall

NextConfirmSingle ==
  \/ MoveSelection \/ Refresh \/ Touch
  \/ DeleteConfirmation \/ SingleConfirmAction \/ ConfirmEscape
  \/ EnterSelectMode \/ ToggleSelection \/ ExitSelectMode
  \/ ConfirmBatchDelete \/ ConfirmAction
  \/ NewWorktreeKey \/ CreateEscape \/ EditConfig \/ ConfigEscape

SpecConfirmSingle == InitConfirmSingle /\ [][NextConfirmSingle]_vars

(***************************************************************************)
(* The hook flow with its output stream: a session over a repository with  *)
(* a post-create hook configured, followed through create, hook output,    *)
(* completion, abort and the failure choice.                               *)
(***************************************************************************)
InitOutput == Init /\ repoExists /\ configExists(configFile)

NextOutput ==
  \/ NewWorktreeKey \/ CreateSubmit
  \/ HookOutput \/ HookComplete \/ HookSuccessTimer
  \/ AbortHook \/ HookFailureChoice \/ ForceQuit \/ ToolExit

SpecOutput == InitOutput /\ [][NextOutput]_vars

(***************************************************************************)
(* The process from its start: cli.ts calls runApp, which creates the      *)
(* renderer and constructs the session; a rejection ends the process with  *)
(* code 1.                                                                 *)
(***************************************************************************)
InitExit ==
  /\ repoExists \in BOOLEAN
  /\ gitWorktrees \in
       IF repoExists THEN {{MainWorktree} \cup x : x \in InitialExtras}
       ELSE {{}}
  /\ configFile \in IF repoExists THEN InitialFiles ELSE {NoFile}
  /\ availCmds \in InitialCommands
  /\ ui = NewSelector
  /\ hooks = [i \in 1..MaxHooks |-> "idle"]
  /\ timers = 0
  /\ proc = "starting"
  /\ launches = <<>>
  /\ exitCode = Null
  /\ last = Ran("start")
  /\ document = OtherDocument("missing")
  /\ resolved = NoCall

\* runApp(targetPath, pkg) resolves: the session is constructed
RunApp ==
  /\ proc = "starting"
  /\ proc' = "ui"
  /\ ui' = Constructor(gitWorktrees, configFile)
  /\ last' = Ran("constructor")
  /\ UNCHANGED <<gitWorktrees, configFile, hooks, timers, launches, exitCode>>
  /\ EnvUnchanged

\* runApp(...).catch: the interactive surface failed to initialise
RunAppFails ==
  /\ proc = "starting"
  /\ ProcessExit("1")
  /\ last' = Ran("RunAppFails")

NextExit ==
  \/ RunApp \/ RunAppFails
  \/ ForceQuit \/ Quit \/ Refresh \/ MoveSelection \/ ItemSelected
  \/ NewWorktreeKey \/ CreateEscape \/ EditConfig \/ ConfigTab \/ ConfigEscape
  \/ EnterSelectMode \/ ToggleSelection \/ ExitSelectMode
  \/ ConfirmBatchDelete \/ ConfirmEscape
  \/ Touch \/ ToolExit

SpecExit == InitExit /\ [][NextExit]_vars

(***************************************************************************)
(* The global-config resolver on its own: the document starts in any of    *)
(* the states a user or an earlier version can leave it in, and every step *)
(* is one call of loadRepoConfig or saveRepoConfig.                        *)
(***************************************************************************)
\* `default` members of a document that is an object
InitialDefaults ==
  { NoFields,
    getDefaultConfig,
    [postCreateHook |-> "npm i", openCommand |-> Null,
     launchCommand |-> "cursor"],
    [postCreateHook |-> NotAString, openCommand |-> "",
     launchCommand |-> NotAString] }

\* `repos` members of a document that is an object
InitialRepos ==
  { <<>>,
    [k \in {RepoKey} |-> Entry(Null, Null, "cursor")],
    [k \in {RepoKey} |-> Entry("npm i", NotAString, NotAString)],
    [k \in {RepoKey, OtherKey} |->
       IF k = RepoKey THEN Entry(Null, Null, Null)
       ELSE Entry(Null, "code", Null)],
    [k \in {RepoKey, OtherKey} |->
       IF k = RepoKey THEN NotAnEntry ELSE Entry("", Null, "opencode")] }

InitialDocuments ==
  {OtherDocument(kind) :
     kind \in {"missing", "unreadable", "notJSON", "notObject"}}
  \cup {ObjectDocument(TRUE, d, TRUE, r) :
          d \in InitialDefaults, r \in InitialRepos}
  \cup {ObjectDocument(FALSE, NoFields, FALSE, <<>>),
        ObjectDocument(FALSE, NoFields, TRUE,
                       [k \in {RepoKey} |-> Entry(Null, Null, "cursor")])}

\* the configs a caller can pass to saveRepoConfig: every field a string
\* or undefined
SavedConfigs ==
  [postCreateHook : {Null, "", "npm i"},
   openCommand : {Null, "", "code"},
   launchCommand : {Null, "opencode", "cursor"}]

\* what getRepoKey(repoRoot) can return: a key, or none without a remote
RepoKeys == {Null, RepoKey, OtherKey}

InitConfig ==
  /\ repoExists = TRUE
  /\ gitWorktrees = {MainWorktree}
  /\ configFile = NoFile
  /\ availCmds \in InitialCommands
  /\ ui = NewSelector
  /\ hooks = [i \in 1..MaxHooks |-> "idle"]
  /\ timers = 0
  /\ proc = "ui"
  /\ launches = <<>>
  /\ exitCode = Null
  /\ last = Ran("start")
  /\ document \in InitialDocuments
  /\ resolved = NoCall

ResolverOnly ==
  UNCHANGED <<ui, gitWorktrees, repoExists, configFile, availCmds, hooks,
              timers, proc, launches, exitCode, last>>

\* loadRepoConfig(repoRoot)
LoadRepoConfig ==
  /\ \E repoKey \in RepoKeys :
       resolved' = [op |-> "load", repoKey |-> repoKey, config |-> NoFields,
                    success |-> TRUE,
                    result |-> loadRepoConfigGlobal(document, repoKey).config,
                    before |-> document]
  /\ UNCHANGED document
  /\ ResolverOnly

\* saveRepoConfig(repoRoot, config)
SaveRepoConfig ==
  /\ \E repoKey \in RepoKeys, config \in SavedConfigs, writeOk \in BOOLEAN :
       LET saved == saveRepoConfigGlobal(document, repoKey, config, writeOk)
       IN  /\ document' = saved.document
           /\ resolved' = [op |-> "save", repoKey |-> repoKey,
                           config |-> config, success |-> saved.success,
                           result |-> NoFields, before |-> document]
  /\ ResolverOnly

NextConfig == LoadRepoConfig \/ SaveRepoConfig

SpecConfig == InitConfig /\ [][NextConfig]_vars

(***************************************************************************)
(* Properties of the session.                                              *)
(***************************************************************************)
\* the mode flags of a session record that are set
ActiveModes(s) ==
  {f \in {"isConfirming", "isCreatingWorktree", "isSelectingForDelete",
          "isEditingConfig", "isRunningHook"} : s[f]}

\* the launch a handler makes from state `ui` into directory cwd
Launched(cwd) ==
  /\ proc' = "launched"
  /\ launches' = Append(launches,
                        [cwd |-> cwd,
                         command |-> OrOpencode(ui.repoConfig.launchCommand)])

\* C1: in every reachable state at most one of the five mode flags is set, and
\* hookFailed is set only while isRunningHook is set.
C1_ExactlyOneMode ==
  /\ Cardinality(ActiveModes(ui)) <= 1
  /\ ui.hookFailed => ui.isRunningHook

\* C2: when the display-delay timer of a successful hook fires and the user
\* pressed nothing since the completion, the session launches the configured
\* command in the pending (newly created) worktree path and the session ends.
C2_SuccessTimerLaunches ==
  [][(HookSuccessTimer /\ last.op = "HookSucceeded" /\ ui.isRunningHook
      /\ Truthy(ui.pendingWorktreePath))
     => Launched(ui.pendingWorktreePath)]_vars

\* C3: in HookFailed, choosing "launch anyway" launches the configured command
\* with the pending worktree path as working directory and ends the session.
C3_LaunchAnywayInPendingPath ==
  [][(HookFailureChoice /\ last'.op = "LaunchAnyway" /\ ui.isRunningHook
      /\ ui.hookFailed)
     => Launched(ui.pendingWorktreePath)]_vars

\* C4: a failed hook completion after a create puts the session in HookFailed,
\* and cancel (or Escape) there returns to Browse with the newly created
\* worktree preselected in the list, launching nothing.
C4_CancelPreselectsNewWorktree ==
  [][(HookFailureChoice /\ last'.op = "HookFailureCancel" /\ ui.isRunningHook
      /\ ui.hookFailed /\ Truthy(ui.pendingWorktreePath))
     => /\ KeyBranch(ui') = "browse"
        /\ getSelectedWorktree(ui').path = ui.pendingWorktreePath
        /\ launches' = launches
        /\ proc' = proc]_vars

\* C5: a hook completion with success = false delivered while the session is
\* in HookRunning moves the session to HookFailed (the failure choice is
\* offered) and launches nothing.
C5_FailureEntersHookFailed ==
  [][(HookComplete /\ last'.op = "HookFailed" /\ ui.isRunningHook)
     => /\ ui'.isRunningHook /\ ui'.hookFailed
        /\ KeyBranch(ui') = "hookFailed"
        /\ ui'.hookFailureSelect
        /\ ui'.pendingWorktreePath = ui.pendingWorktreePath
        /\ launches' = launches
        /\ proc' = proc]_vars

\* a failed completion has just been delivered to a session in HookRunning
C5_Witness ==
  /\ last.op = "HookFailed"
  /\ ui.isRunningHook /\ ui.hookFailed /\ ui.hookFailureSelect
  /\ ui.status = "Hook failed (exit code: 1)"

\* a hook process whose completion callback has not been delivered yet
HookPending == \E id \in 1..MaxHooks : hooks[id] \in {"running", "killed"}

\* C6: a successful create with a non-empty postCreateHook moves the session
\* from CreateInput to HookRunning with pendingWorktreePath = the created
\* path, and nothing is launched before the hook's completion is delivered.
C6_HookRunsBeforeAnyLaunch ==
  /\ last.op = "CreateWithHook" =>
       /\ ActiveModes(ui) = {"isRunningHook"} /\ ~ui.hookFailed
       /\ ui.pendingWorktreePath = last.calls[1].path
  /\ HookPending => launches = <<>>

\* C7: a successful create without a postCreateHook launches the configured
\* command in the created worktree path in the same step, never entering
\* HookRunning, and the session ends.
C7_CreateWithoutHookLaunches ==
  [][(CreateSubmit /\ gitWorktrees' # gitWorktrees
      /\ ~Truthy(loadRepoConfig(configFile).postCreateHook))
     => /\ \E r \in gitWorktrees' \ gitWorktrees : Launched(r.path)
        /\ ~ui'.isRunningHook
        /\ hooks' = hooks]_vars

\* a worktree was created without a hook and the tool launched in it
C7_Witness ==
  /\ last.op = "CreateAndLaunch"
  /\ proc = "launched"
  /\ launches = <<[cwd |-> "/w/a", command |-> "opencode"]>>
  /\ \E r \in gitWorktrees : r.path = "/w/a"

\* C8: the main worktree is never selected for deletion, never the record of
\* a confirm dialog, and never passed to unlinkWorktree or deleteWorktree.
C8_MainWorktreeNeverDeleted ==
  /\ RepoRootPath \notin ui.selectedForDelete
  /\ ui.confirmingWorktree.path # RepoRootPath
  /\ \A i \in 1..Len(ui.worktreesToDelete) :
       ui.worktreesToDelete[i].path # RepoRootPath
  /\ \A i \in 1..Len(last.calls) :
       last.calls[i].op = "unlink" => last.calls[i].path # RepoRootPath
  /\ repoExists => MainWorktree \in gitWorktrees

\* a batch over selected worktrees has run its unlink calls
C8_Witness ==
  /\ last.op = "Batch"
  /\ \E i \in 1..Len(last.calls) : last.calls[i].op = "unlink"
  /\ MainWorktree \in gitWorktrees

\* the paths handed to unlink, in call order
RECURSIVE UnlinkedPaths(_)
UnlinkedPaths(calls) ==
  IF calls = <<>> THEN <<>>
  ELSE (IF Head(calls).op = "unlink" THEN <<Head(calls).path>> ELSE <<>>)
       \o UnlinkedPaths(Tail(calls))

\* every confirmed item is processed, in order
AllProcessed ==
  UnlinkedPaths(last'.calls) =
    [i \in 1..Len(ui.worktreesToDelete) |-> ui.worktreesToDelete[i].path]

\* C9 as stated: a batch over N confirmed items of which M fail unlink
\* processes all N in order and ends with successCount = N - M, failCount = M.
C9_CountsUnlinkFailures ==
  [][(ConfirmAction /\ last'.op = "Batch" /\ ui.repoRoot # Null)
     => /\ AllProcessed
        /\ last'.batch.count = Len(ui.worktreesToDelete)
        /\ last'.batch.failCount = last'.batch.unlinkFailed
        /\ last'.batch.successCount =
             last'.batch.count - last'.batch.unlinkFailed]_vars

\* C9 amended: a batch over N confirmed items processes all N in order and ends
\* with failCount = M and successCount = N - M, where M counts the items
\* whose unlink failed and, under "delete all", also the items whose branch
\* delete failed after a successful unlink.
C9_CountsFailedItems ==
  [][(ConfirmAction /\ last'.op = "Batch" /\ ui.repoRoot # Null)
     => /\ AllProcessed
        /\ last'.batch.count = Len(ui.worktreesToDelete)
        /\ last'.batch.failCount =
             last'.batch.unlinkFailed + last'.batch.branchFailed
        /\ last'.batch.successCount =
             last'.batch.count - last'.batch.failCount]_vars

\* a batch of two items ran to the end although the first unlink failed
C9_Witness ==
  /\ last.op = "Batch"
  /\ last.batch.count = 2
  /\ last.batch.unlinkFailed = 1
  /\ last.batch.successCount = 1
  /\ last.batch.failCount = 1
  /\ last.calls[1].op = "unlink"
  /\ \E r \in gitWorktrees : r.path = last.calls[1].path

\* C10: once a batch has finished and the session is back in Browse, the
\* status line reports the batch outcome.
C10_StatusReportsBatchOutcome ==
  (last.op = "Batch" /\ last.batch.count > 0) =>
    /\ KeyBranch(ui) = "browse"
    /\ ui.status = BatchStatus(last.batch.action, last.batch.successCount,
                               last.batch.failCount)

\* the position of the unlink call for path in a call sequence (0 = none)
UnlinkIndex(calls, path) ==
  IF \E k \in 1..Len(calls) : calls[k].op = "unlink" /\ calls[k].path = path
    THEN CHOOSE k \in 1..Len(calls) :
           calls[k].op = "unlink" /\ calls[k].path = path
    ELSE 0

\* C11: in a confirmed batch "delete all", every item that has a branch gets
\* its unlink with force = the item's dirty state at that moment, and the
\* local branch delete of its branch comes right after that unlink and only
\* after it; items are handled in list order, one after another.
C11_DeleteAllUnlinksThenDeletesBranch ==
  [][(ConfirmAction /\ last'.op = "Batch"
      /\ last'.batch.action = CONFIRM_DELETE_VALUE)
     => /\ AllProcessed
        /\ \A i \in 1..Len(ui.worktreesToDelete) :
             LET wt == ui.worktreesToDelete[i]
                 k == UnlinkIndex(last'.calls, wt.path)
             IN  Truthy(wt.branch) =>
                   /\ k > 0
                   /\ last'.calls[k].force =
                        hasUncommittedChanges(gitWorktrees, wt.path)
                   /\ (\A r \in gitWorktrees' : r.path # wt.path) =>
                        /\ k < Len(last'.calls)
                        /\ last'.calls[k + 1].op = "branchDelete"
                        /\ last'.calls[k + 1].branch = wt.branch
        /\ \A k \in 1..Len(last'.calls) :
             last'.calls[k].op = "branchDelete" =>
               /\ k > 1
               /\ last'.calls[k - 1].op = "unlink"
               /\ \A r \in gitWorktrees' :
                    r.path # last'.calls[k - 1].path]_vars

\* a dirty worktree on branch a was force-unlinked and its branch deleted
C11_Witness ==
  /\ last.op = "Batch"
  /\ last.batch.action = CONFIRM_DELETE_VALUE
  /\ \E k \in 1..(Len(last.calls) - 1) :
       /\ last.calls[k] = Call("unlink", "/w/a", Null, TRUE)
       /\ last.calls[k + 1] = Call("branchDelete", Null, "a", TRUE)
  /\ \A r \in gitWorktrees : r.path # "/w/a"

\* the items of a sequence of records whose worktree is gone after the step
Removed(worktrees) ==
  {i \in 1..Len(worktrees) :
     \A r \in gitWorktrees' : r.path # worktrees[i].path}

\* a batch "delete all" handles its detached items by unlink alone
BatchDowngradesDetached ==
  (ConfirmAction /\ last'.op = "Batch"
   /\ last'.batch.action = CONFIRM_DELETE_VALUE)
  => /\ \A i \in 1..Len(ui.worktreesToDelete) :
          ~Truthy(ui.worktreesToDelete[i].branch) =>
            UnlinkIndex(last'.calls, ui.worktreesToDelete[i].path) > 0
     /\ \A k \in 1..Len(last'.calls) :
          last'.calls[k].op = "branchDelete" => Truthy(last'.calls[k].branch)
     /\ last'.batch.successCount =
          Cardinality(Removed(ui.worktreesToDelete)) - last'.batch.branchFailed

\* a single-record "delete" of a detached record is handled by unlink alone
SingleDowngradesDetached ==
  (SingleConfirmAction /\ last'.op = "Single"
   /\ last'.batch.action = CONFIRM_DELETE_VALUE
   /\ ~Truthy(ui.confirmingWorktree.branch))
  => /\ last'.calls =
          <<Call("unlink", ui.confirmingWorktree.path, Null, ui.confirmIsDirty)>>
     /\ Removed(<<ui.confirmingWorktree>>) = {1} =>
          last'.report # "Cannot delete branch: detached HEAD."

\* C12: a delete request (single-record confirm or batch) for a record with
\* no branch never issues a branch delete, unlinks the worktree and counts
\* the item as a success once the unlink succeeded.
C12_DetachedDeleteIsUnlinkOnly ==
  [][BatchDowngradesDetached /\ SingleDowngradesDetached]_vars

\* the batch half of C12 alone
C12_BatchHalf == [][BatchDowngradesDetached]_vars

\* a batch "delete all" removed the detached worktree with one unlink call
C12_BatchWitness ==
  /\ last.op = "Batch"
  /\ last.batch.action = CONFIRM_DELETE_VALUE
  /\ last.calls = <<Call("unlink", "/w/d", Null, FALSE)>>
  /\ last.batch.successCount = 1
  /\ \A r \in gitWorktrees : r.path # "/w/d"

\* C13: deleteWorktree is two-phase.  The unlink comes first; when it fails
\* the result is a failure at step "unlink" and no branch delete is issued;
\* the branch delete is issued only after a successful unlink, and when it
\* fails the result is a failure at step "branch" with the worktree removed.
C13_DeleteWorktreeTwoPhase ==
  [][(SingleConfirmAction /\ last'.op = "Single"
      /\ last'.batch.action = CONFIRM_DELETE_VALUE
      /\ Truthy(ui.confirmingWorktree.branch))
     => LET wt == ui.confirmingWorktree
            unlink == Call("unlink", wt.path, Null, ui.confirmIsDirty)
            branchDelete == Call("branchDelete", Null, wt.branch, TRUE)
        IN  IF Removed(<<wt>>) = {}
              THEN /\ last'.calls = <<unlink>>
                   /\ last'.report = "Failed to remove worktree: " \o GitError
                   /\ gitWorktrees' = gitWorktrees
              ELSE /\ last'.calls = <<unlink, branchDelete>>
                   /\ gitWorktrees' = Unlinked(gitWorktrees, wt.path)
                   /\ last'.report \in
                        {"Worktree and local branch '" \o wt.branch
                           \o "' deleted.",
                         "Worktree removed but failed to delete branch: "
                           \o GitError}]_vars

\* the branch delete failed after the unlink: the worktree stays removed
C13_Witness ==
  /\ last.op = "Single"
  /\ last.report = "Worktree removed but failed to delete branch: " \o GitError
  /\ last.calls = <<Call("unlink", "/w/a", Null, TRUE),
                    Call("branchDelete", Null, "a", TRUE)>>
  /\ \A r \in gitWorktrees : r.path # "/w/a"

\* a key handled as one of the list hotkeys q, r, n, d, o, c
BrowseHotkey ==
  Quit \/ Refresh \/ NewWorktreeKey \/ EnterSelectMode \/ OpenFolder
  \/ EditConfig

\* C14: outside Browse no key performs a Browse hotkey action (quit,
\* refresh, enter create, enter delete-select, open folder, enter config
\* edit), and the only quit of the session is the force-quit Ctrl+C.
C14_BrowseHotkeysSuppressed ==
  [][(proc = "ui" /\ ActiveModes(ui) # {})
     => /\ ~BrowseHotkey
        /\ proc' = "exited" => (ForceQuit /\ exitCode' = "0")
        /\ ui'.isCreatingWorktree => ui.isCreatingWorktree
        /\ ui'.isSelectingForDelete => ui.isSelectingForDelete
        /\ ui'.isEditingConfig => ui.isEditingConfig]_vars

\* q was pressed in multi-select: the session is back in the list, running
C14_Witness ==
  /\ last.op = "ExitSelectMode"
  /\ proc = "ui"
  /\ ActiveModes(ui) = {}
  /\ ui.selectedForDelete = {}

\* the step leaves the session and what it drives as they were
SessionUnchanged ==
  /\ ui' = ui
  /\ UNCHANGED <<proc, launches, exitCode, hooks, timers, configFile>>

\* a callback of the hook runner or of the display-delay timer: no input
HookCallback == HookComplete \/ HookSuccessTimer

\* C15: while a hook is active input is gated.  In HookRunning no key event
\* other than Ctrl+C changes the session; in HookFailed only the failure
\* choice (launch anyway / cancel, Escape being cancel) changes it, Ctrl+C
\* remaining the global force-quit that ends the session.
C15_HookGatesInput ==
  [][/\ (proc = "ui" /\ ui.isRunningHook /\ ~ui.hookFailed)
          => (SessionUnchanged \/ HookCallback \/ AbortHook \/ ForceQuit)
     /\ (proc = "ui" /\ ui.isRunningHook /\ ui.hookFailed)
          => (SessionUnchanged \/ HookCallback \/ HookFailureChoice
              \/ ForceQuit)]_vars

\* the session sits in HookRunning with the hook process still running
C15_Witness ==
  /\ proc = "ui"
  /\ ui.isRunningHook /\ ~ui.hookFailed
  /\ ui.hookAbortFn # 0 /\ hooks[ui.hookAbortFn] = "running"
  /\ ~ui.selectFocused /\ ~ui.branchInput /\ ~ui.confirmSelect
  /\ \E r \in gitWorktrees : r.path = "/w/a" /\ r.dirty

\* C16: hook cancellation is cooperative.  After Ctrl+C the session stays in
\* HookRunning (accepting no list input) until the completion callback of
\* the terminated hook fires, and that completion is reported as a failure.
C16_CancellationIsCooperative ==
  [][/\ \A id \in 1..MaxHooks :
          hooks'[id] = "killed" => (ui'.isRunningHook /\ ~ui'.hookFailed)
     /\ (HookComplete
         /\ \E id \in 1..MaxHooks : hooks[id] = "killed" /\ hooks'[id] = "done")
          => /\ last'.op = "HookFailed"
             /\ ui'.isRunningHook /\ ui'.hookFailed]_vars

\* the hook runs whose completion is delivered by the step
Completing ==
  {id \in 1..MaxHooks : hooks[id] \in {"running", "killed"}
                        /\ hooks'[id] = "done"}

\* C17: every hook run completes exactly once, with success = (exit code =
\* 0) and, on a spawn error, no exit code and success = false; the session
\* is told so (onHookSuccess or onHookFailure accordingly), and no output
\* chunk of a run is delivered after its completion.
C17_CompletionFiresOnce ==
  [][/\ \A id \in 1..MaxHooks :
          hooks[id] = "done" => (hooks'[id] = "done" \/ proc' = "exited")
     /\ HookComplete =>
          /\ Completing = {last'.result.id}
          /\ last'.result.success = (last'.result.exitCode = "0")
          /\ last'.result.exitCode = Null => ~last'.result.success
          /\ ui'.hookAbortFn = 0
          /\ IF last'.result.success
               THEN /\ last'.op = "HookSucceeded"
                    /\ ui'.status = "Hook completed successfully!"
                    /\ ~ui'.hookFailed
               ELSE /\ last'.op = "HookFailed"
                    /\ ui'.hookFailed
                    /\ ui'.status =
                         IF last'.result.exitCode = Null THEN "Hook failed"
                         ELSE "Hook failed (exit code: "
                              \o last'.result.exitCode \o ")"
     /\ HookOutput =>
          /\ hooks[last'.result.id] \in {"running", "killed"}
          /\ Completing = {}]_vars

\* a spawn error was reported after two chunks of output had been delivered
C17_Witness ==
  /\ last.op = "HookFailed"
  /\ last.result.id = 1
  /\ ~last.result.success /\ last.result.exitCode = Null
  /\ hooks[1] = "done"
  /\ Len(ui.hookOutput) = 2
  /\ ui.status = "Hook failed"

RECURSIVE Concatenation(_)
\* the characters of a sequence of chunks, in order
Concatenation(chunks) ==
  IF chunks = <<>> THEN <<>>
  ELSE Head(chunks) \o Concatenation(Tail(chunks))

\* number of line breaks in a text
Newlines(text) == Cardinality({i \in 1..Len(text) : text[i] = "\n"})

\* shown is the trailing window of at most maxLines lines of full
TrailingWindow(shown, full) ==
  /\ Len(shown) <= Len(full)
  /\ shown = SubSeq(full, Len(full) - Len(shown) + 1, Len(full))
  /\ Newlines(shown) <= maxLines - 1
  /\ shown # full =>
       /\ Newlines(shown) = maxLines - 1
       /\ full[Len(full) - Len(shown)] = "\n"

\* C18: while a hook runs, every delivered chunk is appended to the output
\* buffer, nothing else changes the buffer, and the displayed text is the
\* trailing window (at most the last 11 lines) of the buffer's concatenation.
C18_OutputInOrderTrailingWindow ==
  [][/\ (CreateSubmit /\ ui'.isRunningHook) => ui'.hookOutput = <<>>
     /\ (HookOutput /\ ui.isRunningHook) =>
          /\ ui'.hookOutput = Append(ui.hookOutput, last'.result.data)
          /\ TrailingWindow(ui'.hookOutputText,
                            Concatenation(ui'.hookOutput))
     /\ (ui.isRunningHook /\ ui'.isRunningHook /\ ~HookOutput) =>
          /\ ui'.hookOutput = ui.hookOutput
          /\ ui'.hookOutputText = ui.hookOutputText]_vars

\* thirteen lines were delivered and the display dropped the first two
C18_Witness ==
  /\ ui.isRunningHook
  /\ Len(ui.hookOutput) = 2
  /\ Newlines(Concatenation(ui.hookOutput)) = 12
  /\ ui.hookOutputText = SubSeq(Concatenation(ui.hookOutput), 5, 24)
  /\ Head(ui.hookOutputText) = "3"

\* C19: the process exits with 0 on a quit (q or Escape in the list, Ctrl+C),
\* with the launched tool's exit code when a tool was launched, and with a
\* non-zero code when the interactive surface fails to initialise.
C19_ExitCodes ==
  [][/\ (Quit \/ ForceQuit) => exitCode' = "0"
     /\ ToolExit => exitCode' = last'.result.exitCode
     /\ RunAppFails => exitCode' # "0" /\ exitCode' # Null]_vars

\* the same with the tool's code mirrored only when the exit event carries
\* a number, and 0 reported for a tool ended by a signal
C19_NumericCodesMirrored ==
  [][/\ (Quit \/ ForceQuit) => exitCode' = "0"
     /\ ToolExit => exitCode' = IF last'.result.exitCode = Null THEN "0"
                                ELSE last'.result.exitCode
     /\ RunAppFails => exitCode' # "0" /\ exitCode' # Null]_vars

\* a launched tool was ended by a signal and the session process reported 0
C19_Witness ==
  /\ proc = "exited"
  /\ last.op = "ToolExit"
  /\ last.result.exitCode = Null
  /\ launches # <<>>
  /\ exitCode = "0"

Populated(config) ==
  /\ DOMAIN config = DOMAIN getDefaultConfig
  /\ \A f \in DOMAIN config : IsString(config[f])

\* C21: loadRepoConfig returns, for every state of the persisted document
\* and every repo key, a config with postCreateHook, openCommand and
\* launchCommand all populated.
C21_LoadReturnsAllFields ==
  (proc = "ui" /\ ui.repoRoot # Null) => Populated(loadRepoConfig(configFile))

\* the same for loadRepoConfig of the global-config module, whose result
\* starts from a fully populated default
C21_GlobalLoadReturnsAllFields ==
  /\ Populated(loadRepoConfigGlobal(document, Null).config)
  /\ Populated(loadRepoConfigGlobal(document, RepoKey).config)
  /\ resolved.op = "load" => Populated(resolved.result)

\* a session whose repository has no config file: the loaded config has no
\* field at all
C21_Witness ==
  /\ proc = "ui" /\ ui.repoRoot # Null
  /\ ~configExists(configFile)
  /\ loadRepoConfig(configFile) = EmptyConfig
  /\ ui.repoConfig.launchCommand = Null

\* default.field as the document gives it, or the built-in default
DocDefault(doc, f) ==
  IF doc.kind = "object" /\ doc.defaultIsObject /\ IsString(doc.default[f])
    THEN doc.default[f]
    ELSE getDefaultConfig[f]

\* the field is present in repos[key] of the document
DocOverrides(doc, key, f) ==
  /\ key # Null
  /\ doc.kind = "object" /\ doc.reposIsObject
  /\ key \in DOMAIN doc.repos
  /\ doc.repos[key].isObject
  /\ IsString(doc.repos[key][f])

\* C22: loadRepoConfig merges field by field: each field of the result is
\* repos[key].field when the repo key resolves and the override has the
\* field, and default.field otherwise.
C22_FieldLevelMerge ==
  resolved.op = "load" =>
    \A f \in DOMAIN getDefaultConfig :
      resolved.result[f] =
        IF DocOverrides(resolved.before, resolved.repoKey, f)
          THEN resolved.before.repos[resolved.repoKey][f]
          ELSE DocDefault(resolved.before, f)

\* default.launchCommand = "opencode" with repos[key].launchCommand =
\* "cursor": launchCommand from the override, postCreateHook from default
C22_Witness ==
  /\ resolved.op = "load" /\ resolved.repoKey = RepoKey
  /\ resolved.before.kind = "object"
  /\ resolved.before.default = getDefaultConfig
  /\ resolved.before.repos = [k \in {RepoKey} |-> Entry(Null, Null, "cursor")]
  /\ resolved.result.launchCommand = "cursor"
  /\ resolved.result.postCreateHook = ""

\* C23: round trip: after a successful saveRepoConfig(repo, c), loadRepoConfig
\* of the same repository returns every saved field of c, launchCommand
\* included.
C23_SaveThenLoadRoundTrip ==
  [][(ConfigSave /\ ui.repoRoot # Null
      /\ ui'.status # "Failed to save config.")
     => \A f \in DOMAIN ui'.repoConfig :
          loadRepoConfig(configFile')[f] = ui'.repoConfig[f]]_vars

\* the round trip of the global-config module: a load that follows a
\* successful save for the same key returns the saved fields of c merged
\* over the document's default
C23_GlobalRoundTrip ==
  [][(LoadRepoConfig /\ resolved.op = "save" /\ resolved.success
      /\ resolved'.repoKey = resolved.repoKey)
     => \A f \in DOMAIN getDefaultConfig :
          resolved'.result[f] =
            IF resolved.config[f] # Null THEN resolved.config[f]
            ELSE DocDefault(resolved.before, f)]_vars

\* a launch command was saved to the config file and a load of that file
\* does not return it
C23_Witness ==
  /\ last.op = "ConfigSave"
  /\ configFile.exists /\ configFile.content.launchCommand = "cursor"
  /\ ui.repoConfig.launchCommand = "cursor"
  /\ loadRepoConfig(configFile).launchCommand = Null

\* the fields in which config c differs from the default of document doc
Differing(c, doc) ==
  {f \in DOMAIN getDefaultConfig : c[f] # DocDefault(doc, f)}

\* the entry repos[key] of the document holds field f
Holds(doc, key, f) == doc.repos[key][f] # Null

\* after a successful save of c for key, the document is the minimal diff
MinimalDiff(c, key, before, after) ==
  IF Differing(c, before) = {}
    THEN key \notin DOMAIN after.repos
    ELSE /\ key \in DOMAIN after.repos
         /\ \A f \in DOMAIN getDefaultConfig :
              /\ Holds(after, key, f) <=> f \in Differing(c, before)
              /\ Holds(after, key, f) => after.repos[key][f] = c[f]

\* C24: minimal-diff persistence: after a successful saveRepoConfig(repo, c),
\* repos[key] holds exactly the fields in which c differs from default, and
\* the key is absent when no field differs.
C24_MinimalDiffPersistence ==
  (resolved.op = "save" /\ resolved.success) =>
    MinimalDiff(resolved.config, resolved.repoKey, resolved.before, document)

\* the same for configs whose three fields are all strings
C24_MinimalDiffOfPopulated ==
  (resolved.op = "save" /\ resolved.success /\ Populated(resolved.config)) =>
    MinimalDiff(resolved.config, resolved.repoKey, resolved.before, document)

\* a config without any field was saved over an override and the document
\* keeps an entry for the key that holds no field
C24_Witness ==
  /\ resolved.op = "save" /\ resolved.success
  /\ resolved.config = NoFields
  /\ resolved.before.kind = "object"
  /\ RepoKey \in DOMAIN resolved.before.repos
  /\ resolved.before.repos[RepoKey] = Entry(Null, Null, "cursor")
  /\ RepoKey \in DOMAIN document.repos
  /\ document.repos[RepoKey] = Entry(Null, Null, Null)

\* C25: a failed config save returns failure, and without a repo key leaves
\* the persisted document as it was; the session keeps its in-memory config
\* and its availability flag and returns to Browse with a failure status.
C25_FailedSaveKeepsConfig ==
  [][(ConfigSave /\ ui.repoRoot # Null /\ ~last'.result.success) =>
       /\ ui'.repoConfig = ui.repoConfig
       /\ ui'.opencodeAvailable = ui.opencodeAvailable
       /\ configFile' = configFile
       /\ ActiveModes(ui') = {} /\ ui'.selectVisible
       /\ ui'.status = "Failed to save config."
       /\ \A doc \in InitialDocuments, c \in SavedConfigs, w \in BOOLEAN :
            saveRepoConfigGlobal(doc, Null, c, w) =
              [document |-> doc, success |-> FALSE]]_vars

\* a launch command that is not on PATH was saved, and a later save failed:
\* the config and the flag are those of the earlier save
C25_Witness ==
  /\ last.op = "ConfigSave" /\ ~last.result.success
  /\ ui.status = "Failed to save config."
  /\ ui.repoConfig.launchCommand = "cursor"
  /\ ~ui.opencodeAvailable
  /\ ActiveModes(ui) = {}

\* C26: the session starts in ConfigEdit exactly when a repo root resolves
\* and the repository has no saved config, and in Browse otherwise;
\* afterwards ConfigEdit is entered only by the user's request from Browse
\* with a resolved repo root.
C26_ConfigEditEntry ==
  /\ last.op = "constructor" =>
       /\ ui.isEditingConfig <=> (repoExists /\ ~configExists(configFile))
       /\ ActiveModes(ui) = IF repoExists /\ ~configExists(configFile)
                              THEN {"isEditingConfig"} ELSE {}
  /\ [][(~ui.isEditingConfig /\ ui'.isEditingConfig) =>
          /\ EditConfig
          /\ ActiveModes(ui) = {}
          /\ ui.repoRoot # Null /\ repoExists]_vars

\* the editor was left at first-time setup and opened again with c
C26_Witness ==
  /\ last.op = "EditConfig"
  /\ ui.isEditingConfig /\ ~ui.isFirstTimeSetup
  /\ ui.repoRoot # Null
  /\ ~configExists(configFile)
  /\ ui.status = "Edit project configuration."

\* the status messages that carry the raw error text of a failed
\* version-control command
ErrorStatuses ==
  {prefix \o GitError :
     prefix \in {"Failed to create worktree: ", "Failed to unlink: ",
                 "Failed to remove worktree: ",
                 "Worktree removed but failed to delete branch: "}}

\* C27: when a create, unlink or delete issued by the session fails, the
\* status carries the raw error text and is still the status when the
\* operation has returned; no hook runs, nothing is launched and the
\* session stays as it was.
C27_VcsFailureSurfaced ==
  [][/\ (CreateSubmit /\ last'.op = "CreateFailed") =>
          /\ ui'.status \in ErrorStatuses
          /\ gitWorktrees' = gitWorktrees
          /\ hooks' = hooks /\ proc' = proc /\ launches' = launches
          /\ ActiveModes(ui') = ActiveModes(ui)
     /\ (ConfirmAction /\ last'.batch.failCount > 0) =>
          /\ ui'.status \in ErrorStatuses
          /\ hooks' = hooks /\ proc' = proc /\ launches' = launches]_vars

\* the create half alone
C27_CreateFailureSurfaced ==
  [][(CreateSubmit /\ last'.op = "CreateFailed") =>
       /\ ui'.status \in ErrorStatuses
       /\ gitWorktrees' = gitWorktrees
       /\ hooks' = hooks /\ proc' = proc /\ launches' = launches
       /\ ActiveModes(ui') = ActiveModes(ui)]_vars

\* the single-record dialog: the error status it sets is the status after
\* the handler has returned
C27_SingleFailureStatusKept ==
  [][(SingleConfirmAction /\ last'.report \in ErrorStatuses) =>
       ui'.status = last'.report]_vars

\* a batch in which a removal failed has returned: neither the status the
\* handler set nor the status now shown carries the error text
C27_Witness ==
  /\ last.op = "Batch" /\ last.batch.failCount > 0
  /\ last.report \notin ErrorStatuses
  /\ ui.status \notin ErrorStatuses
  /\ ActiveModes(ui) = {}

\* the warnings that say no repository was found
NoRepoWarnings ==
  {"No git repository found in this directory.", "No git repository found."}

\* no worktree action is available: no create, unlink, delete or config
\* save was called, and neither MultiSelect nor ConfigEdit is active
ActionsDisabled ==
  /\ last.calls = <<>>
  /\ gitWorktrees = {}
  /\ ~ui.isSelectingForDelete /\ ~ui.isEditingConfig /\ ~ui.isConfirming
  /\ ~ui.isRunningHook /\ launches = <<>>

\* C28: while no repo root resolves, no createWorktree, unlinkWorktree,
\* deleteWorktree or saveRepoConfig call is issued, MultiSelect and
\* ConfigEdit are not entered, and the warning that no repository was found
\* stays shown.
C28_NoRepoDisablesActions ==
  (proc = "ui" /\ ~repoExists) =>
    /\ ui.repoRoot = Null
    /\ ActionsDisabled
    /\ ui.status \in NoRepoWarnings

\* the same without the requirement on the status line
C28_NoRepoNoCalls ==
  (proc = "ui" /\ ~repoExists) => (ui.repoRoot = Null /\ ActionsDisabled)

\* outside a repository the o key has replaced the warning, in Browse
C28_Witness ==
  /\ proc = "ui" /\ ~repoExists /\ ui.repoRoot = Null
  /\ last.op = "OpenFolder"
  /\ ActiveModes(ui) = {}
  /\ ui.status = "Select a worktree to open in file manager."

\* Escape in the create dialog, in a confirm dialog, in the config editor or
\* in multi-select
EscapeCancels == CreateEscape \/ ConfirmEscape \/ ConfigEscape \/ ExitSelectMode

\* C29: Escape in CreateInput, ConfirmSingle, ConfirmBatch, ConfigEdit or
\* MultiSelect returns the session to Browse without a create, unlink,
\* delete or config-save call, and leaves the worktree set and the
\* persisted config as they were.
C29_EscapeCancelsWithoutEffect ==
  [][(EscapeCancels /\ Cardinality(ActiveModes(ui)) = 1) =>
       /\ ActiveModes(ui') = {}
       /\ last'.calls = <<>>
       /\ gitWorktrees' = gitWorktrees
       /\ configFile' = configFile
       /\ proc' = proc /\ launches' = launches /\ hooks' = hooks]_vars

\* a confirm dialog was closed with Escape while a dirty worktree exists,
\* and the worktree is still there
C29_Witness ==
  /\ last.op = "ConfirmEscape"
  /\ ActiveModes(ui) = {}
  /\ ui.confirmingWorktree = NoWorktree /\ ~ui.confirmSelect
  /\ \E r \in gitWorktrees : r.path = "/w/a" /\ r.dirty
  /\ ui.selectedIndex > 0

\* the list shows only non-main records and no "create new" entry
ListsOnlyDeletable(s) ==
  \A i \in 1..Len(s.options) :
    /\ s.options[i] # CREATE_NEW_WORKTREE_VALUE
    /\ s.options[i].path # RepoRootPath

\* C30: MultiSelect is entered from Browse only when a repo root resolves and
\* a non-main worktree exists; it starts with an empty selected set and
\* lists only non-main records.  Confirming moves to ConfirmBatch only when
\* the selected set is non-empty; otherwise the session stays in MultiSelect
\* with a warning.
C30_MultiSelectEntryAndConfirm ==
  [][/\ (~ui.isSelectingForDelete /\ ui'.isSelectingForDelete) =>
          /\ EnterSelectMode
          /\ ActiveModes(ui) = {}
          /\ ui.repoRoot # Null
          /\ \E r \in gitWorktrees : r.path # RepoRootPath
          /\ ui'.selectedForDelete = {}
          /\ Len(ui'.options) > 0
     /\ ui'.isSelectingForDelete => ListsOnlyDeletable(ui')
     /\ (ConfirmBatchDelete /\ ui.isSelectingForDelete) =>
          IF ui.selectedForDelete # {}
            THEN /\ ActiveModes(ui') = {"isConfirming"}
                 /\ ui'.confirmSelect
            ELSE /\ ActiveModes(ui') = {"isSelectingForDelete"}
                 /\ ui'.status = "No worktrees selected. Use Enter to select."
     /\ (~ui.isConfirming /\ ui'.isConfirming) =>
          (ConfirmBatchDelete /\ ui.selectedForDelete # {})]_vars

\* d was pressed in MultiSelect with nothing selected: the session is still
\* in MultiSelect and shows the warning
C30_Witness ==
  /\ last.op = "ConfirmBatchDelete"
  /\ ActiveModes(ui) = {"isSelectingForDelete"}
  /\ ui.selectedForDelete = {}
  /\ ui.status = "No worktrees selected. Use Enter to select."
  /\ ListsOnlyDeletable(ui) /\ Len(ui.options) > 0

\* the steps that bring the session back to the list, and the refresh
ReturnsToBrowse ==
  \/ CreateEscape \/ ConfirmEscape \/ ConfirmAction \/ SingleConfirmAction
  \/ ExitSelectMode \/ AbortHook \/ HookFailureChoice \/ Refresh

\* the list a fresh listing of the repository gives after the step
FreshOptions ==
  IF repoExists
    THEN <<CREATE_NEW_WORKTREE_VALUE>> \o listWorktrees(gitWorktrees')
    ELSE <<>>

\* C31: worktree records are not cached: every return to Browse from
\* CreateInput, a confirm dialog, MultiSelect or a cancelled or failed hook,
\* and every refresh, shows the list of a fresh listing, so a worktree that
\* was unlinked or deleted is not listed once the dialog has closed.
C31_ListRebuiltOnReturn ==
  [][(ReturnsToBrowse /\ proc' = "ui" /\ ActiveModes(ui') = {}) =>
       /\ ui'.options = FreshOptions
       /\ \A i \in 1..Len(ui'.options) :
            \/ ui'.options[i] = CREATE_NEW_WORKTREE_VALUE
            \/ \E r \in gitWorktrees' : r.path = ui'.options[i].path]_vars

\* a batch removed a worktree and the list shown after the dialog closed no
\* longer has it
C31_Witness ==
  /\ last.op = "Batch" /\ last.batch.successCount > 0
  /\ ActiveModes(ui) = {}
  /\ \E k \in 1..Len(last.calls) :
       last.calls[k].op = "unlink" /\ last.calls[k].path = "/w/a"
  /\ ~(\E r \in gitWorktrees : r.path = "/w/a")
  /\ ui.options = <<CREATE_NEW_WORKTREE_VALUE>> \o listWorktrees(gitWorktrees)
  /\ \A i \in 2..Len(ui.options) : ui.options[i].path # "/w/a"

\* the names of BranchInputs that are left once the outer blanks are removed
TrimmedNames == {"a"}

\* C32: submitting an empty or whitespace-only branch name issues no
\* createWorktree call, shows the error status and leaves the session in the
\* create input; every createWorktree call a submit issues carries the name
\* without its outer blanks.
C32_EmptyNameRejectedNameTrimmed ==
  [][CreateSubmit =>
       /\ (last'.op = "CreateEmpty" =>
             /\ last'.calls = <<>>
             /\ gitWorktrees' = gitWorktrees
             /\ ui'.status = "Branch name cannot be empty."
             /\ ui'.branchInput
             /\ ActiveModes(ui') = ActiveModes(ui)
             /\ launches' = launches)
       /\ \A k \in 1..Len(last'.calls) :
            last'.calls[k].op = "create" =>
              /\ last'.calls[k].branch \in TrimmedNames
              /\ last'.calls[k].branch \notin BranchInputs
              /\ last'.calls[k].path = PathOf(last'.calls[k].branch)]_vars

\* a blank name was just rejected, in a repository that had accepted " a "
\* before: the worktree of branch a exists and the input is still open
C32_Witness ==
  /\ last.op = "CreateEmpty"
  /\ ui.branchInput
  /\ ui.status = "Branch name cannot be empty."
  /\ \E r \in gitWorktrees : r.path = PathOf("a")

\* a submit of " a " has just called createWorktree with the name a
C32_TrimmedWitness ==
  /\ last.op \in {"CreateWithHook", "CreateAndLaunch", "CreateFailed"}
  /\ Len(last.calls) = 1
  /\ last.calls[1].op = "create" /\ last.calls[1].branch = "a"

\* the step delivers the completion of a hook the user has cancelled, to a
\* session that is back in the list
LateCompletion ==
  /\ HookComplete
  /\ \E id \in 1..MaxHooks : hooks[id] = "killed" /\ hooks'[id] = "done"
  /\ ActiveModes(ui) = {}

\* C33: the completion of a cancelled hook that arrives after the session
\* returned to the list changes neither the mode flags, nor hookFailed, nor
\* the abort handle, nor the output buffer, nor the pending path.
C33_CancelledHookIsInert ==
  [][LateCompletion =>
       /\ ActiveModes(ui') = ActiveModes(ui)
       /\ ui'.hookFailed = ui.hookFailed
       /\ ui'.hookAbortFn = ui.hookAbortFn
       /\ ui'.hookOutput = ui.hookOutput
       /\ ui'.pendingWorktreePath = ui.pendingWorktreePath]_vars

\* the completion of a cancelled hook has been delivered to the list: the
\* failure dialog state is set although no hook is running
C33_Witness ==
  /\ last.op = "HookFailed"
  /\ last.result.id \in 1..MaxHooks /\ hooks[last.result.id] = "done"
  /\ ui.hookFailed /\ ~ui.isRunningHook
  /\ ui.hookAbortFn = 0

\* C34: while the session is in the list (no mode flag set) and has not
\* ended, the worktree list is visible.
C34_BrowseShowsList ==
  (proc = "ui" /\ ActiveModes(ui) = {}) => ui.selectVisible

\* the display delay of a successful hook has run out: the hook view is
\* closed, the list stays hidden, no dialog is open and nothing was launched
C34_Witness ==
  /\ last.op = "HookSuccessTimer"
  /\ proc = "ui" /\ launches = <<>>
  /\ ActiveModes(ui) = {} /\ ~ui.hookFailed
  /\ ~ui.selectVisible

\* the session is in MultiSelect or in the batch confirm dialog
InMultiSelectOrConfirmBatch(s) ==
  \/ s.isSelectingForDelete
  \/ s.isConfirming /\ s.confirmingWorktree = NoWorktree

\* C35: the selected-for-delete set is empty in every state whose mode is
\* neither MultiSelect nor ConfirmBatch.
C35_SelectionEmptyOutsideDeleteModes ==
  ~InMultiSelectOrConfirmBatch(ui) => ui.selectedForDelete = {}

\* Escape closed the batch confirm dialog: the session is back in the list
\* and the set still holds the paths that were marked
C35_Witness ==
  /\ last.op = "ConfirmEscape"
  /\ ActiveModes(ui) = {}
  /\ ui.selectedForDelete # {}
  /\ ui.selectedForDelete \subseteq {r.path : r \in gitWorktrees}

\* the step launches the external tool
Launches == Len(launches') > Len(launches)

\* C36: the external tool is never launched while the session's availability
\* flag for the launch command, as last computed, is false.
C36_LaunchOnlyWhenAvailable ==
  [][Launches => ui'.opencodeAvailable]_vars

\* a create without hook has launched the configured command although the
\* last availability check of that command had failed
C36_Witness ==
  /\ last.op = "CreateAndLaunch"
  /\ proc = "launched" /\ Len(launches) = 1
  /\ ~ui.opencodeAvailable
  /\ launches[1].command \notin availCmds

\* C37: after a successful save in the config editor the session's in-memory
\* config equals what loadRepoConfig returns for the repository at that
\* moment: same postCreateHook, openCommand and launchCommand.
C37_MemoryEqualsFreshLoad ==
  [][(ConfigSave /\ last'.result.success) =>
       LET loaded == loadRepoConfig(configFile') IN
       /\ ui'.repoConfig.postCreateHook = loaded.postCreateHook
       /\ ui'.repoConfig.openCommand = loaded.openCommand
       /\ ui'.repoConfig.launchCommand = loaded.launchCommand]_vars

\* hook and launch command were saved together: a fresh load gives the hook
\* of the saved config and no launch command, the memory holds both
C37_Witness ==
  /\ last.op = "ConfigSave" /\ last.result.success
  /\ ui.repoConfig.postCreateHook = "npm i"
  /\ loadRepoConfig(configFile).postCreateHook = "npm i"
  /\ ui.repoConfig.launchCommand = "cursor"
  /\ OrOpencode(loadRepoConfig(configFile).launchCommand) = "opencode"

\* the entry of key in the document holds no field
EmptyEntry(doc, key) ==
  /\ key \in DOMAIN doc.repos
  /\ \A f \in DOMAIN getDefaultConfig : doc.repos[key][f] = Null

\* C38: saveRepoConfig never writes an override entry with no fields: after
\* a successful save the document has either no repos[key] or a repos[key]
\* with at least one field.
C38_NoEmptyOverrideWritten ==
  (resolved.op = "save" /\ resolved.success) =>
    ~EmptyEntry(document, resolved.repoKey)

\* the config editor's config with every field left empty was saved where no
\* document existed: the written document has an entry for the key and the
\* entry has no field
C38_Witness ==
  /\ resolved.op = "save" /\ resolved.success
  /\ resolved.config = NoFields
  /\ resolved.before.kind = "missing"
  /\ document.kind = "object"
  /\ DOMAIN document.repos = {RepoKey}
  /\ EmptyEntry(document, RepoKey)

\* a document of the declared shape: default holds three strings and every
\* entry of repos is an object whose members are strings or absent
WellTyped(doc) ==
  /\ doc.kind = "object" /\ doc.defaultIsObject /\ doc.reposIsObject
  /\ \A f \in DOMAIN getDefaultConfig : IsString(doc.default[f])
  /\ \A k \in DOMAIN doc.repos :
       /\ doc.repos[k].isObject
       /\ \A f \in DOMAIN getDefaultConfig :
            doc.repos[k][f] = Null \/ IsString(doc.repos[k][f])

\* default and the entries of every key but `key` are the same in both
OnlyKeyChanged(before, after, key) ==
  /\ after.default = before.default
  /\ DOMAIN after.repos \ {key} = DOMAIN before.repos \ {key}
  /\ \A k \in DOMAIN before.repos \ {key} :
       k \in DOMAIN after.repos /\ after.repos[k] = before.repos[k]

\* C39: a successful saveRepoConfig for one repo key changes only repos[key]:
\* default and the override entry of every other key of a valid persisted
\* document are the same after the save as before it.
C39_SaveTouchesOnlyItsKey ==
  (resolved.op = "save" /\ resolved.success /\ WellTyped(resolved.before)) =>
    OnlyKeyChanged(resolved.before, document, resolved.repoKey)

\* the same for documents in which every entry of another key holds a field
C39_OnlyKeyChangedWithoutEmptyEntries ==
  (/\ resolved.op = "save" /\ resolved.success /\ WellTyped(resolved.before)
   /\ \A k \in DOMAIN resolved.before.repos \ {resolved.repoKey} :
        ~EmptyEntry(resolved.before, k)) =>
    OnlyKeyChanged(resolved.before, document, resolved.repoKey)

\* a save for one key found the field-less entry an earlier save had written
\* for the other key, and the written document has no entry for that key
C39_Witness ==
  /\ resolved.op = "save" /\ resolved.success
  /\ resolved.repoKey = RepoKey
  /\ WellTyped(resolved.before)
  /\ EmptyEntry(resolved.before, OtherKey)
  /\ OtherKey \notin DOMAIN document.repos
  /\ RepoKey \in DOMAIN document.repos

\* the single-record confirm dialog is open
ConfirmSingle(s) == s.isConfirming /\ s.confirmingWorktree # NoWorktree

\* the record highlighted in the list is a worktree other than the main one
OnNonMainRecord(s) ==
  /\ s.repoRoot # Null
  /\ getSelectedWorktree(s) # NoWorktree
  /\ getSelectedWorktree(s).path # RepoRootPath

\* C40: each of the eight session modes is reachable; in particular the
\* delete hotkey on a non-main record leads to the single-record confirm
\* dialog for that record.
C40_DeleteKeyOpensSingleConfirm ==
  [][(EnterSelectMode /\ ActiveModes(ui) = {} /\ OnNonMainRecord(ui)) =>
       /\ ConfirmSingle(ui')
       /\ ui'.confirmingWorktree = getSelectedWorktree(ui)]_vars

\* no sequence of inputs and callbacks opens the single-record confirm dialog
C40_ConfirmSingleNeverReached == ~ConfirmSingle(ui)

\* the other seven modes, each reached by the session
C40_ReachesBrowse == proc = "ui" /\ ActiveModes(ui) = {} /\ last.op # "constructor"
C40_ReachesCreateInput == ActiveModes(ui) = {"isCreatingWorktree"}
C40_ReachesMultiSelect == ActiveModes(ui) = {"isSelectingForDelete"}
C40_ReachesConfirmBatch ==
  ActiveModes(ui) = {"isConfirming"} /\ ui.confirmingWorktree = NoWorktree
C40_ReachesConfigEdit == ActiveModes(ui) = {"isEditingConfig"}
C40_ReachesHookRunning ==
  ActiveModes(ui) = {"isRunningHook"} /\ ~ui.hookFailed
C40_ReachesHookFailed ==
  ActiveModes(ui) = {"isRunningHook"} /\ ui.hookFailed

\* d was pressed on a non-main record: the session is in MultiSelect and no
\* confirm dialog is open
C40_Witness ==
  /\ last.op = "EnterSelectMode"
  /\ ActiveModes(ui) = {"isSelectingForDelete"}
  /\ ~ui.isConfirming /\ ~ui.confirmSelect
  /\ ui.confirmingWorktree = NoWorktree
  /\ ui.selectedForDelete = {}

====
